---- MODULE Spec2Model ----
(***************************************************************************)
(* A model of the callbot backend: the per-connection conversation state   *)
(* machine (bot_logic.py), the intent extractor and reference resolver     *)
(* (bot_logic.py, context_manager.py) and the booking ledger (tools.py).   *)
(*                                                                         *)
(* Text is modelled as a sequence of one-character strings, so that the    *)
(* regular expressions and the whitespace normalisation of the source are  *)
(* computed on characters, as the code computes them.                      *)
(***************************************************************************)
EXTENDS Integers, Sequences, FiniteSets, TLC

VARIABLES
    im,      \* extract_intent: the message it is applied to
    icm,     \* extract_intent: self.context_manager (made or None, mentioned events)
    ires,    \* extract_intent: the returned dict, or NoIntent before the call
    kbFile,  \* knowledge_base.json: the list under its "events" key
    tkFile,  \* tickets.json: phone number -> list of bookings
    now,     \* datetime.now().timestamp(), in whole seconds
    calls,   \* the calls of the booking tools made so far, each with its position
    state,            \* ConversationManager.state
    phone_number,     \* ConversationManager.phone_number
    context_manager,  \* ConversationManager.context_manager: made or None, and its context
    transport,        \* the data channel: its readyState and everything sent on it
    redis,            \* the store: whether the app holds a client, whether the server answers, its keys
    tasks             \* the handle_message invocations of the connection, each with its position

intentVars == <<im, icm, ires>>
ledgerVars == <<kbFile, tkFile, now, calls>>
sessionVars == <<state, phone_number, context_manager, transport, redis, tasks>>
vars == <<im, icm, ires, kbFile, tkFile, now, calls,
          state, phone_number, context_manager, transport, redis, tasks>>

(***************************************************************************)
(* Bounds of the model.                                                    *)
(***************************************************************************)
\* the number of vocabulary phrases a message given to extract_intent is made of
MaxPhrases == 3
\* the tickets an event of the initial catalog has at most, and the largest
\* quantity a call of book_ticket asks for
MaxTickets == 2
\* the last second the clock reaches
MaxClock == 2
\* the calls of the booking tools in one run
MaxCalls == 3
\* the calls of the booking tools in one run in which calls overlap
MaxOverlap == 2
\* the messages the client sends on one connection
MaxMsgs == 3
\* the fragments the generation provider streams for one reply
MaxChunks == 1
\* the handle_message invocations of one connection that are unfinished at once
MaxActive == 2
\* the messages added to one conversation context
MaxAdds == 12
\* the event ids handed to set_mentioned_events at once
MaxIds == 6
\* the fragments one generation yields
MaxYield == 4
\* the searches of one run of the engine
MaxSearches == 3
\* the lines of one chunk of the local backend's response
MaxLines == 3
\* the turns of the connections that share the provider
MaxTurns == 2

(***************************************************************************)
(* Constants of the program.                                               *)
(***************************************************************************)
\* context_manager.py 34-35: the turns save keeps
HistoryBound == 10
\* context_manager.py 51: the mentioned events kept
MentionedBound == 5
\* bot_logic.py 168: the length of a phone number
PhoneLen == 10
\* bot_logic.py 280: the history entries that go into a prompt
HistoryLimit == 4
\* bot_logic.py 248: a search of more words than this is announced
CacheTtl == 900
ComplexWords == 5

(***************************************************************************)
(* Characters.                                                             *)
(***************************************************************************)
None == <<"None">>

UpperChars == <<"A","B","C","D","E","F","G","H","I","J","K","L","M",
                "N","O","P","Q","R","S","T","U","V","W","X","Y","Z">>
LowerChars == <<"a","b","c","d","e","f","g","h","i","j","k","l","m",
                "n","o","p","q","r","s","t","u","v","w","x","y","z">>
DigitChars == <<"0","1","2","3","4","5","6","7","8","9">>

Range(f) == {f[i] : i \in DOMAIN f}

UpperSet == Range(UpperChars)
DigitSet == Range(DigitChars)
WordSet == Range(UpperChars) \cup Range(LowerChars) \cup Range(DigitChars) \cup {"_"}
SpaceSet == {" ", "\t", "\n"}

\* str.isspace / the regex class \s, on the characters the model uses
IsSpace(c) == c \in SpaceSet
\* the regex class \d
IsDigitChar(c) == c \in DigitSet
\* the regex class \w
IsWordChar(c) == c \in WordSet

\* str.lower, character by character
LowerChar(c) ==
    IF c \in UpperSet
    THEN LowerChars[CHOOSE i \in DOMAIN UpperChars : UpperChars[i] = c]
    ELSE c
lower(s) == [i \in DOMAIN s |-> LowerChar(s[i])]

\* str.isdigit: non-empty and every character a digit
isdigit(s) == Len(s) > 0 /\ \A i \in DOMAIN s : IsDigitChar(s[i])

DigitVal(c) == (CHOOSE i \in DOMAIN DigitChars : DigitChars[i] = c) - 1

\* int(<digits>)
RECURSIVE int(_)
int(ds) ==
    IF ds = <<>> THEN 0
    ELSE 10 * int(SubSeq(ds, 1, Len(ds) - 1)) + DigitVal(ds[Len(ds)])

\* str(<natural number>): its decimal digits
RECURSIVE str(_)
str(n) ==
    IF n < 10 THEN <<DigitChars[n + 1]>>
    ELSE str(n \div 10) \o <<DigitChars[(n % 10) + 1]>>

(***************************************************************************)
(* _clean_message (bot_logic.py 85-91): strip, then every run of           *)
(* whitespace becomes one space.                                           *)
(***************************************************************************)
RECURSIVE lstrip(_)
lstrip(s) ==
    IF s # <<>> /\ IsSpace(Head(s)) THEN lstrip(Tail(s)) ELSE s

RECURSIVE rstrip(_)
rstrip(s) ==
    IF s # <<>> /\ IsSpace(s[Len(s)]) THEN rstrip(SubSeq(s, 1, Len(s) - 1)) ELSE s

strip(s) == rstrip(lstrip(s))

\* re.sub(r'\s+', ' ', s)
RECURSIVE CollapseSpaces(_)
CollapseSpaces(s) ==
    IF s = <<>> THEN <<>>
    ELSE IF IsSpace(Head(s)) THEN <<" ">> \o CollapseSpaces(lstrip(Tail(s)))
    ELSE <<Head(s)>> \o CollapseSpaces(Tail(s))

_clean_message(message) == CollapseSpaces(strip(message))

(***************************************************************************)
(* The pieces of the regular expressions of extract_intent.                *)
(***************************************************************************)
\* the literal w at position i of s
MatchAt(s, i, w) ==
    /\ i >= 1
    /\ i + Len(w) - 1 <= Len(s)
    /\ \A k \in 1..Len(w) : s[i + k - 1] = w[k]

\* Python's  w in s
Contains(s, w) == \E i \in 1..Len(s) : MatchAt(s, i, w)

\* \b before position i
WordBoundary(s, i) ==
    LET before == i > 1 /\ i - 1 <= Len(s) /\ IsWordChar(s[i - 1])
        after  == i >= 1 /\ i <= Len(s) /\ IsWordChar(s[i])
    IN  before # after

\* .*? between positions i (included) and j (excluded): no newline
DotSpan(s, i, j) == \A k \in i..(j - 1) : s[k] # "\n"

\* the end (last index) of the longest run of characters of a class from i on
RECURSIVE RunEnd(_, _, _)
RunEnd(s, i, isDigits) ==
    IF i <= Len(s) /\ (IF isDigits THEN IsDigitChar(s[i]) ELSE IsWordChar(s[i]))
    THEN RunEnd(s, i + 1, isDigits)
    ELSE i - 1

Min(S) == CHOOSE x \in S : \A y \in S : x <= y

\* the places where  prefix<class>+  can match: the prefix followed by at least
\* one character of the class
IdPlaces(s, prefix, isDigits) ==
    {j \in 1..Len(s) :
        /\ MatchAt(s, j, prefix)
        /\ RunEnd(s, j + Len(prefix), isDigits) >= j + Len(prefix)}

\* the ids that  \b(verb).*?(prefix<class>+)  can reach from a verb at i: at or
\* after the verb's end
IdsAfterVerb(s, i, verbs, prefix, isDigits) ==
    {j \in IdPlaces(s, prefix, isDigits) :
        \E v \in verbs :
            MatchAt(s, i, v) /\ j >= i + Len(v) /\ DotSpan(s, i + Len(v), j)}

\* the starts of the matches of  \b(verb).*?(prefix<class>+)
VerbThenId(s, verbs, prefix, isDigits) ==
    {i \in 1..Len(s) :
        /\ WordBoundary(s, i)
        /\ IdsAfterVerb(s, i, verbs, prefix, isDigits) # {}}

\* group(2) of re.search: the leftmost start, then the nearest id (non-greedy),
\* then the longest run of the class (greedy)
IdGroup(s, verbs, prefix, isDigits) ==
    LET i0 == Min(VerbThenId(s, verbs, prefix, isDigits))
        j0 == Min(IdsAfterVerb(s, i0, verbs, prefix, isDigits))
    IN  SubSeq(s, j0, RunEnd(s, j0 + Len(prefix), isDigits))

W_cancel == <<"c","a","n","c","e","l">>
W_delete == <<"d","e","l","e","t","e">>
W_remove == <<"r","e","m","o","v","e">>
W_tic_ == <<"t","i","c","_">>
W_book == <<"b","o","o","k">>
W_buy == <<"b","u","y">>
W_purchase == <<"p","u","r","c","h","a","s","e">>
W_reserve == <<"r","e","s","e","r","v","e">>
W_get == <<"g","e","t">>
W_evt == <<"e","v","t">>
W_ticket == <<"t","i","c","k","e","t">>
W_seat == <<"s","e","a","t">>
W_spot == <<"s","p","o","t">>
W_that == <<"t","h","a","t">>
W_it == <<"i","t">>
W_this == <<"t","h","i","s">>
W_that_one == <<"t","h","a","t"," ","o","n","e">>
W_this_one == <<"t","h","i","s"," ","o","n","e">>
W_my == <<"m","y">>
W_show == <<"s","h","o","w">>
W_view == <<"v","i","e","w">>
W_list == <<"l","i","s","t">>
W_booking == <<"b","o","o","k","i","n","g">>
W_similar == <<"s","i","m","i","l","a","r">>
W_like == <<"l","i","k","e">>
W_related == <<"r","e","l","a","t","e","d">>
W_comparable == <<"c","o","m","p","a","r","a","b","l","e">>
W_price == <<"p","r","i","c","e">>
W_cost == <<"c","o","s","t">>
W_how_much == <<"h","o","w"," ","m","u","c","h">>
W_details == <<"d","e","t","a","i","l","s">>
W_info == <<"i","n","f","o">>
W_tell_me_about == <<"t","e","l","l"," ","m","e"," ","a","b","o","u","t">>
W_first == <<"f","i","r","s","t">>
W_second == <<"s","e","c","o","n","d">>
W_last == <<"l","a","s","t">>

CancelVerbs == {W_cancel, W_delete, W_remove}
BookVerbs == {W_book, W_buy, W_purchase, W_reserve, W_get}
TicketNouns == {W_ticket, W_seat, W_spot}
Demonstratives == {W_that, W_it, W_this}
ViewVerbs == {W_my, W_show, W_view, W_list, W_get}
ListNouns == {W_ticket, W_booking}
SimilarWords == {W_similar, W_like, W_related, W_comparable}
DetailWords == {W_price, W_cost, W_how_much, W_details, W_info, W_tell_me_about}
DetailRefs == {W_that, W_it, W_this, W_first, W_second}

\* r'\b(cancel|delete|remove).*?(tic_\w+)'
cancel_match(s) == VerbThenId(s, CancelVerbs, W_tic_, FALSE) # {}
cancel_group2(s) == IdGroup(s, CancelVerbs, W_tic_, FALSE)

\* r'\b(book|buy|purchase|reserve|get).*?(evt\d+)'
book_match(s) == VerbThenId(s, BookVerbs, W_evt, TRUE) # {}
book_group2(s) == IdGroup(s, BookVerbs, W_evt, TRUE)

\* r'\b(\d+)\s*(?:ticket|seat|spot)': the starts of a run of digits at a word
\* boundary that is followed, after any whitespace, by one of the nouns
RECURSIVE SkipSpaces(_, _)
SkipSpaces(s, i) ==
    IF i <= Len(s) /\ IsSpace(s[i]) THEN SkipSpaces(s, i + 1) ELSE i

QuantityStarts(s) ==
    {i \in 1..Len(s) :
        /\ WordBoundary(s, i)
        /\ IsDigitChar(s[i])
        /\ \E n \in TicketNouns : MatchAt(s, SkipSpaces(s, RunEnd(s, i, TRUE) + 1), n)}

quantity_match(s) == QuantityStarts(s) # {}

\* the quantity with 0 for a message that names none
quantity_of_default_zero(s) ==
    IF QuantityStarts(s) # {}
    THEN LET i0 == Min(QuantityStarts(s)) IN int(SubSeq(s, i0, RunEnd(s, i0, TRUE)))
    ELSE 0

\* int(quantity_match.group(1)) if quantity_match else 1
quantity_of(s) ==
    IF quantity_match(s)
    THEN LET i0 == Min(QuantityStarts(s)) IN int(SubSeq(s, i0, RunEnd(s, i0, TRUE)))
    ELSE 1

\* r'\b(book|buy|purchase|reserve|get)\s+(that|it|this)'
book_ref_match(s) ==
    \E i \in 1..Len(s) : \E v \in BookVerbs :
        /\ WordBoundary(s, i)
        /\ MatchAt(s, i, v)
        /\ i + Len(v) <= Len(s)
        /\ IsSpace(s[i + Len(v)])
        /\ \E d \in Demonstratives : MatchAt(s, SkipSpaces(s, i + Len(v)), d)

\* r'\b(my|show|view|list|get).*?(ticket|booking)'
my_tickets_match(s) ==
    \E i \in 1..Len(s) : \E v \in ViewVerbs :
        /\ WordBoundary(s, i)
        /\ MatchAt(s, i, v)
        /\ \E j \in (i + Len(v))..Len(s) : \E n \in ListNouns :
              MatchAt(s, j, n) /\ DotSpan(s, i + Len(v), j)

\* r'\b(similar|like|related|comparable)'
similar_match(s) ==
    \E i \in 1..Len(s) : \E w \in SimilarWords : WordBoundary(s, i) /\ MatchAt(s, i, w)

\* r'\b(price|cost|how much|details|info|tell me about)\b'
details_match(s) ==
    \E i \in 1..Len(s) : \E w \in DetailWords :
        WordBoundary(s, i) /\ MatchAt(s, i, w) /\ WordBoundary(s, i + Len(w))

\* r'\b(that|it|this|first|second)'
details_ref_match(s) ==
    \E i \in 1..Len(s) : \E w \in DetailRefs : WordBoundary(s, i) /\ MatchAt(s, i, w)

(***************************************************************************)
(* ContextManager.resolve_reference (context_manager.py 89-113), as a      *)
(* function of the mentioned-events list and the text.                     *)
(***************************************************************************)
\* resolve_reference with the length test of "second" dropped
resolve_reference_second_unchecked(mentioned, text) ==
    IF mentioned = <<>> THEN None
    ELSE IF Contains(lower(text), W_second) THEN mentioned[Min({2, Len(mentioned)})]
    ELSE mentioned[1]

\* resolve_reference with an event made up when nothing was mentioned
resolve_reference_first_event(mentioned, text) ==
    IF mentioned = <<>> THEN <<"e","v","t","1">> ELSE mentioned[1]

resolve_reference(mentioned, text) ==
    LET text_lower == lower(text) IN
    IF mentioned = <<>> THEN None
    ELSE IF \E ref \in {W_that, W_this, W_it, W_that_one, W_this_one} : Contains(text_lower, ref)
    THEN mentioned[1]
    ELSE IF Contains(text_lower, W_first) /\ Len(mentioned) >= 1 THEN mentioned[1]
    ELSE IF Contains(text_lower, W_second) /\ Len(mentioned) >= 2 THEN mentioned[2]
    ELSE IF Contains(text_lower, W_last) /\ Len(mentioned) >= 1 THEN mentioned[Len(mentioned)]
    ELSE None

\* self.context_manager.resolve_reference(message) if self.context_manager else None
resolved_id(cm, message) ==
    IF cm.made THEN resolve_reference(cm.mentioned, message) ELSE None

(***************************************************************************)
(* ConversationManager.extract_intent (bot_logic.py 93-135).  cm is        *)
(* self.context_manager: whether it has been made, and its                 *)
(* last_mentioned_events.                                                  *)
(***************************************************************************)
\* no intent extracted yet
NoIntent == [type |-> "none"]

\* a plausible slip: the fallback query taken from the lowered message
default_intent_lowered(message) == [type |-> "search", query |-> lower(message)]

\* return {"type": "search", "query": message}
default_intent(message) == [type |-> "search", query |-> message]

\* a plausible slip: the book rule tried before the cancel rule
extract_intent_book_first(message, cm) ==
    LET msg_lower == lower(message)
        resolved == resolved_id(cm, message)
    IN
    IF book_match(msg_lower)
    THEN [type |-> "book", event_id |-> book_group2(msg_lower), quantity |-> quantity_of(msg_lower)]
    ELSE IF cancel_match(msg_lower)
    THEN [type |-> "cancel", booking_id |-> cancel_group2(msg_lower)]
    ELSE IF book_ref_match(msg_lower) /\ resolved # None
    THEN [type |-> "book", event_id |-> resolved, quantity |-> quantity_of(msg_lower)]
    ELSE IF my_tickets_match(msg_lower)
    THEN [type |-> "my_tickets"]
    ELSE IF similar_match(msg_lower) /\ resolved # None
    THEN [type |-> "similar", event_id |-> resolved]
    ELSE IF details_match(msg_lower) /\ details_ref_match(msg_lower) /\ resolved # None
    THEN [type |-> "details", event_id |-> resolved]
    ELSE default_intent(message)

extract_intent(message, cm) ==
    LET msg_lower == lower(message)
        resolved == resolved_id(cm, message)
    IN
    IF cancel_match(msg_lower)
    THEN [type |-> "cancel", booking_id |-> cancel_group2(msg_lower)]
    ELSE IF book_match(msg_lower)
    THEN [type |-> "book", event_id |-> book_group2(msg_lower), quantity |-> quantity_of(msg_lower)]
    ELSE IF book_ref_match(msg_lower) /\ resolved # None
    THEN [type |-> "book", event_id |-> resolved, quantity |-> quantity_of(msg_lower)]
    ELSE IF my_tickets_match(msg_lower)
    THEN [type |-> "my_tickets"]
    ELSE IF similar_match(msg_lower) /\ resolved # None
    THEN [type |-> "similar", event_id |-> resolved]
    ELSE IF details_match(msg_lower) /\ details_ref_match(msg_lower) /\ resolved # None
    THEN [type |-> "details", event_id |-> resolved]
    ELSE default_intent(message)

(***************************************************************************)
(* The booking tools (tools.py 147-234) over the two JSON files.           *)
(*                                                                         *)
(* read_json_file gives {} for an empty file, and write_json_file opens    *)
(* the file with mode 'w', which empties it, before the content is         *)
(* written: between the two a reader finds an empty file.  A file is       *)
(* modelled by what read_json_file returns for it: knowledge_base.json by  *)
(* the list kb_db.get('events', []), tickets.json by the dict.             *)
(***************************************************************************)
E1 == <<"e","v","t","1">>
E2 == <<"e","v","t","2">>
E3 == <<"e","v","t","3">>
T1 == <<"t","i","c","_","1">>
P1 == <<"1","2","3","4","5","6","7","8","9","0">>
P2 == <<"9","8","7","6","5","4","3","2","1","0">>

\* the catalog with the two events holding t1 and t2 tickets
Catalog(t1, t2) ==
    << [id |-> E1, name |-> "Jazz Night", price |-> 500, tickets_available |-> t1],
       [id |-> E2, name |-> "Food Trail", price |-> 300, tickets_available |-> t2] >>

\* what read_json_file returns for an empty or a missing file
EmptyKb == <<>>
EmptyTickets == <<>>

NoEvent == [id |-> None, name |-> "", price |-> 0, tickets_available |-> 0]
NoBooking == [booking_id |-> None, event_id |-> None, event_name |-> "", quantity |-> 0,
              total_price |-> 0, booked_at |-> 0]
NoResult == [status |-> "pending", message |-> "", data |-> <<>>]

\* tickets_db.get(phone_number, [])
UserTickets(db, phone) == IF phone \in DOMAIN db THEN db[phone] ELSE <<>>

\* tickets_db[phone_number] = value
SetKey(db, phone, value) ==
    [p \in (DOMAIN db) \cup {phone} |-> IF p = phone THEN value ELSE db[p]]

\* del tickets_db[phone_number]
DelKey(db, phone) == [p \in (DOMAIN db) \ {phone} |-> db[p]]

\* the index of the first element of a list satisfying a test, 0 when none does
FirstIndex(list, Test(_)) ==
    IF \E i \in DOMAIN list : Test(list[i])
    THEN Min({i \in DOMAIN list : Test(list[i])})
    ELSE 0

\* a removal that leaves the list as it was
RemoveAt_keeping(list, i) == list

\* the list without its element at index i
RemoveAt(list, i) == SubSeq(list, 1, i - 1) \o SubSeq(list, i + 1, Len(list))

\* f"tic_{int(datetime.now().timestamp())}"
BookingId(clock) == W_tic_ \o str(clock)

\* a call of a booking tool before its first step
NewCall(op, phone, event_id, quantity, booking_id) ==
    [op |-> op, pc |-> IF op = "book" THEN "read_kb" ELSE "read_tk",
     phone |-> phone, event_id |-> event_id, quantity |-> quantity, booking_id |-> booking_id,
     kb_db |-> EmptyKb, tickets_db |-> EmptyTickets, event |-> NoEvent, ticket |-> NoBooking,
     result |-> NoResult]

\* the call returns: its locals are gone
Return(c, result) ==
    [c EXCEPT !.pc = "done", !.kb_db = EmptyKb, !.tickets_db = EmptyTickets,
              !.event = NoEvent, !.ticket = NoBooking, !.result = result]

\* book_ticket without the availability check of line 160.
book_ticket_step_unchecked(c, kb, tk, clock) ==
    CASE c.pc = "read_kb" ->
            LET idx == FirstIndex(kb, LAMBDA e : e.id = c.event_id) IN
            IF idx = 0
            THEN [call |-> Return(c, [status |-> "error", message |-> "event_not_found", data |-> <<>>]),
                  kb |-> kb, tk |-> tk]
            ELSE [call |-> [c EXCEPT !.pc = "open_kb", !.event = kb[idx],
                                     !.kb_db = [kb EXCEPT ![idx].tickets_available = @ - c.quantity]],
                  kb |-> kb, tk |-> tk]
      [] c.pc = "open_kb" ->
            [call |-> [c EXCEPT !.pc = "write_kb"], kb |-> EmptyKb, tk |-> tk]
      [] c.pc = "write_kb" ->
            [call |-> [c EXCEPT !.pc = "read_tk", !.kb_db = EmptyKb], kb |-> c.kb_db, tk |-> tk]
      [] c.pc = "read_tk" ->
            LET booking == [booking_id |-> BookingId(clock), event_id |-> c.event_id,
                            event_name |-> c.event.name, quantity |-> c.quantity,
                            total_price |-> c.event.price * c.quantity, booked_at |-> clock]
            IN [call |-> [c EXCEPT !.pc = "open_tk", !.ticket = booking,
                                   !.tickets_db = SetKey(tk, c.phone, Append(UserTickets(tk, c.phone), booking))],
                kb |-> kb, tk |-> tk]
      [] c.pc = "open_tk" ->
            [call |-> [c EXCEPT !.pc = "write_tk"], kb |-> kb, tk |-> EmptyTickets]
      [] c.pc = "write_tk" ->
            [call |-> Return(c, [status |-> "success", message |-> "", data |-> <<c.ticket>>]),
             kb |-> kb, tk |-> c.tickets_db]

\* One step of book_ticket: from the completion of the awaited file operation
\* to the next await.  The result is the call and the two files after the step.
book_ticket_step(c, kb, tk, clock) ==
    CASE c.pc = "read_kb" ->
            \* 149-167: kb_db = await read_json_file(...), the two checks, the decrement
            LET idx == FirstIndex(kb, LAMBDA e : e.id = c.event_id) IN
            IF idx = 0
            THEN [call |-> Return(c, [status |-> "error", message |-> "event_not_found", data |-> <<>>]),
                  kb |-> kb, tk |-> tk]
            ELSE IF kb[idx].tickets_available < c.quantity
            THEN [call |-> Return(c, [status |-> "error", message |-> "only_n_left", data |-> <<>>]),
                  kb |-> kb, tk |-> tk]
            ELSE [call |-> [c EXCEPT !.pc = "open_kb", !.event = kb[idx],
                                     !.kb_db = [kb EXCEPT ![idx].tickets_available = @ - c.quantity]],
                  kb |-> kb, tk |-> tk]
      [] c.pc = "open_kb" ->
            \* 169, write_json_file 24: open(path, 'w') empties the file
            [call |-> [c EXCEPT !.pc = "write_kb"], kb |-> EmptyKb, tk |-> tk]
      [] c.pc = "write_kb" ->
            \* write_json_file 25: the content is written
            [call |-> [c EXCEPT !.pc = "read_tk", !.kb_db = EmptyKb], kb |-> c.kb_db, tk |-> tk]
      [] c.pc = "read_tk" ->
            \* 172-185: tickets_db = await read_json_file(...), the booking appended
            LET booking == [booking_id |-> BookingId(clock), event_id |-> c.event_id,
                            event_name |-> c.event.name, quantity |-> c.quantity,
                            total_price |-> c.event.price * c.quantity, booked_at |-> clock]
            IN [call |-> [c EXCEPT !.pc = "open_tk", !.ticket = booking,
                                   !.tickets_db = SetKey(tk, c.phone, Append(UserTickets(tk, c.phone), booking))],
                kb |-> kb, tk |-> tk]
      [] c.pc = "open_tk" ->
            \* 187, write_json_file 24
            [call |-> [c EXCEPT !.pc = "write_tk"], kb |-> kb, tk |-> EmptyTickets]
      [] c.pc = "write_tk" ->
            \* write_json_file 25, then 189
            [call |-> Return(c, [status |-> "success", message |-> "", data |-> <<c.ticket>>]),
             kb |-> kb, tk |-> c.tickets_db]

\* One step of cancel_ticket.
cancel_ticket_step(c, kb, tk, clock) ==
    CASE c.pc = "read_tk" ->
            \* 194-207: the ticket looked up and removed from the user's list
            LET user_tickets == UserTickets(tk, c.phone)
                idx == FirstIndex(user_tickets, LAMBDA t : t.booking_id = c.booking_id)
                left == RemoveAt(user_tickets, idx)
            IN
            IF idx = 0
            THEN [call |-> Return(c, [status |-> "error", message |-> "booking_not_found", data |-> <<>>]),
                  kb |-> kb, tk |-> tk]
            ELSE [call |-> [c EXCEPT !.pc = "open_tk", !.ticket = user_tickets[idx],
                                     !.tickets_db = IF left = <<>> THEN DelKey(tk, c.phone)
                                                    ELSE SetKey(tk, c.phone, left)],
                  kb |-> kb, tk |-> tk]
      [] c.pc = "open_tk" ->
            \* 209, write_json_file 24
            [call |-> [c EXCEPT !.pc = "write_tk"], kb |-> kb, tk |-> EmptyTickets]
      [] c.pc = "write_tk" ->
            \* write_json_file 25
            [call |-> [c EXCEPT !.pc = "read_kb", !.tickets_db = EmptyTickets], kb |-> kb, tk |-> c.tickets_db]
      [] c.pc = "read_kb" ->
            \* 212-216: the tickets given back to the first event with the id
            LET idx == FirstIndex(kb, LAMBDA e : e.id = c.ticket.event_id) IN
            [call |-> [c EXCEPT !.pc = "open_kb",
                                !.kb_db = IF idx = 0 THEN kb
                                          ELSE [kb EXCEPT ![idx].tickets_available = @ + c.ticket.quantity]],
             kb |-> kb, tk |-> tk]
      [] c.pc = "open_kb" ->
            \* 218, write_json_file 24
            [call |-> [c EXCEPT !.pc = "write_kb"], kb |-> EmptyKb, tk |-> tk]
      [] c.pc = "write_kb" ->
            \* write_json_file 25, then 220-223
            [call |-> Return(c, [status |-> "success", message |-> "canceled", data |-> <<>>]),
             kb |-> c.kb_db, tk |-> tk]

\* The one step of get_my_tickets (226-234).
get_my_tickets_step(c, kb, tk, clock) ==
    LET user_tickets == UserTickets(tk, c.phone) IN
    [call |-> Return(c, IF user_tickets = <<>>
                        THEN [status |-> "not_found", message |-> "no_booked_tickets", data |-> <<>>]
                        ELSE [status |-> "success", message |-> "", data |-> user_tickets]),
     kb |-> kb, tk |-> tk]

\* one step of a call of any of the three tools
tool_step(c, kb, tk, clock) ==
    CASE c.op = "book" -> book_ticket_step(c, kb, tk, clock)
      [] c.op = "cancel" -> cancel_ticket_step(c, kb, tk, clock)
      [] c.op = "my_tickets" -> get_my_tickets_step(c, kb, tk, clock)

(***************************************************************************)
(* The state of one connection after construction (bot_logic.py 36-42,     *)
(* main.py 103-113) and the context a ContextManager starts with           *)
(* (context_manager.py 8-17).                                              *)
(***************************************************************************)
STATE_AWAITING_PHONE == "AWAITING_PHONE"
STATE_CONVERSING == "CONVERSING"

\* ContextManager.__init__: self.context (a history entry is modelled by its
\* role and content)
FreshContext ==
    [last_mentioned_events |-> <<>>, pending_booking |-> None, last_search_query |-> None,
     last_action |-> None, conversation_history |-> <<>>]

NoContextManager == [made |-> FALSE, phone |-> None, context |-> FreshContext]

\* the store with no key
EmptyStore == <<>>

SessionAtStart(client, store) ==
    /\ state = STATE_AWAITING_PHONE
    /\ phone_number = None
    /\ context_manager = NoContextManager
    /\ transport = [readyState |-> "connecting", sent |-> <<>>]
    /\ redis = [client |-> client, up |-> client, store |-> store]
    /\ tasks = <<>>

(***************************************************************************)
(* The booking tools called directly.  calls keeps every call made, with   *)
(* the two files as they were when it started (pre) and when it returned   *)
(* (post).                                                                 *)
(***************************************************************************)
Phones == {P1, P2}
Quantities == 0..MaxTickets
BookableIds == {E1, E2, E3}
CancelIds == {BookingId(t) : t \in 1..MaxClock}

Files(kb, tk) == [kb |-> kb, tk |-> tk]

LedgerAtStart(catalog) ==
    /\ kbFile = catalog
    /\ tkFile = EmptyTickets
    /\ now = 1
    /\ calls = <<>>

InitLedger ==
    /\ \E t1 \in 0..MaxTickets : LedgerAtStart(Catalog(t1, MaxTickets))
    /\ im = <<>>
    /\ icm = [made |-> FALSE, mentioned |-> <<>>]
    /\ ires = NoIntent
    /\ SessionAtStart(FALSE, EmptyStore)

Running(i) == calls[i].c.pc # "done"

StartCall(c) ==
    /\ calls' = Append(calls, [c |-> c, pre |-> Files(kbFile, tkFile), post |-> Files(kbFile, tkFile)])
    /\ UNCHANGED <<kbFile, tkFile, now>>
    /\ UNCHANGED intentVars
    /\ UNCHANGED sessionVars

\* a caller calls book_ticket(event_id, quantity, phone_number)
CallBook(max) ==
    /\ Len(calls) < max
    /\ \E p \in Phones, e \in BookableIds, q \in Quantities :
          StartCall(NewCall("book", p, e, q, None))

\* a caller calls cancel_ticket(booking_id, phone_number)
CallCancel(max) ==
    /\ Len(calls) < max
    /\ \E p \in Phones, b \in CancelIds :
          StartCall(NewCall("cancel", p, None, 0, b))

\* a caller calls get_my_tickets(phone_number)
CallMyTickets(max) ==
    /\ Len(calls) < max
    /\ \E p \in Phones : StartCall(NewCall("my_tickets", p, None, 0, None))

\* a running call takes its next step
CallStep ==
    \E i \in DOMAIN calls :
        /\ Running(i)
        /\ \E r \in {tool_step(calls[i].c, kbFile, tkFile, now)} :
           /\ kbFile' = r.kb
           /\ tkFile' = r.tk
           /\ calls' = [calls EXCEPT ![i].c = r.call, ![i].post = Files(r.kb, r.tk)]
        /\ UNCHANGED now
        /\ UNCHANGED intentVars
        /\ UNCHANGED sessionVars

\* a second passes
Tick ==
    /\ now < MaxClock
    /\ now' = now + 1
    /\ UNCHANGED <<kbFile, tkFile, calls>>
    /\ UNCHANGED intentVars
    /\ UNCHANGED sessionVars

NoneRunning == \A i \in DOMAIN calls : ~Running(i)

\* the calls one after the other: a call starts when the one before has returned
NextLedgerSeq ==
    \/ NoneRunning /\ CallBook(MaxCalls)
    \/ NoneRunning /\ CallCancel(MaxCalls)
    \/ NoneRunning /\ CallMyTickets(MaxCalls)
    \/ CallStep
    \/ Tick

SpecLedgerSeq == InitLedger /\ [][NextLedgerSeq]_vars

\* the calls of several tasks of the event loop: a call may start while others
\* are suspended at an await
NextLedger ==
    \/ CallBook(MaxOverlap)
    \/ CallCancel(MaxOverlap)
    \/ CallMyTickets(MaxOverlap)
    \/ CallStep
    \/ Tick

SpecLedger == InitLedger /\ [][NextLedger]_vars

(***************************************************************************)
(* Properties of the booking tools called one after the other, checked     *)
(* under SpecLedgerSeq.                                                    *)
(***************************************************************************)
\* tickets_available of the event with the id in a catalog (0 when it has none)
TicketsOf(kb, event_id) ==
    LET idx == FirstIndex(kb, LAMBDA e : e.id = event_id) IN
    IF idx = 0 THEN 0 ELSE kb[idx].tickets_available

Succeeded(call) == call.c.pc = "done" /\ call.c.result.status = "success"

\* calls i and i+1 are a successful book_ticket and the successful
\* cancel_ticket of the booking id it returned, for the same phone number
RoundTripAt(i) ==
    /\ i + 1 \in DOMAIN calls
    /\ calls[i].c.op = "book" /\ Succeeded(calls[i])
    /\ calls[i + 1].c.op = "cancel" /\ Succeeded(calls[i + 1])
    /\ calls[i + 1].c.phone = calls[i].c.phone
    /\ calls[i + 1].c.booking_id = calls[i].c.result.data[1].booking_id

\* C6: a successful book_ticket followed by cancel_ticket of the returned
\* booking id leaves the event's tickets_available and the user's booking list
\* as they were before the booking.
C6_BookCancelRoundTrip ==
    \A i \in DOMAIN calls :
        RoundTripAt(i) =>
            /\ TicketsOf(calls[i + 1].post.kb, calls[i].c.event_id)
                  = TicketsOf(calls[i].pre.kb, calls[i].c.event_id)
            /\ UserTickets(calls[i + 1].post.tk, calls[i].c.phone)
                  = UserTickets(calls[i].pre.tk, calls[i].c.phone)

(***************************************************************************)
(* Properties of overlapping calls of the booking tools, checked under     *)
(* SpecLedger.                                                             *)
(***************************************************************************)
\* the booking a successful book_ticket returned is in the ledger, under the
\* phone number of the call
Stored(call) ==
    \E k \in DOMAIN UserTickets(tkFile, call.c.phone) :
        UserTickets(tkFile, call.c.phone)[k] = call.c.result.data[1]

\* C5: two book_ticket calls for different phone numbers that both returned
\* success leave both bookings in the ledger, however their steps interleaved
\* (in a run in which nothing was cancelled).
C5_BothBookingsStored ==
    \A i, j \in DOMAIN calls :
        ( /\ i # j
          /\ \A k \in DOMAIN calls : calls[k].c.op = "book" /\ ~Running(k)
          /\ Succeeded(calls[i]) /\ Succeeded(calls[j])
          /\ calls[i].c.phone # calls[j].c.phone )
        => Stored(calls[i]) /\ Stored(calls[j])

(***************************************************************************)
(* The inputs extract_intent is applied to: messages made of up to         *)
(* MaxPhrases phrases of a vocabulary, separated by single spaces (the     *)
(* form _clean_message leaves), and a context manager that is None or      *)
(* holds a list of mentioned events.                                       *)
(***************************************************************************)
Vocabulary ==
    { W_cancel, T1, W_book, E2, W_that, W_similar, W_price,
      W_book \o <<" ">> \o E2,
      <<"m","y"," ","t","i","c","k","e","t","s">>,
      <<"0"," ","t","i","c","k","e","t","s">>,
      <<"C","o","n","c","e","r","t","s">> }

RECURSIVE Join(_)
Join(ws) ==
    IF ws = <<>> THEN <<>>
    ELSE IF Len(ws) = 1 THEN ws[1]
    ELSE ws[1] \o <<" ">> \o Join(Tail(ws))

IntentMessages == {Join(ws) : ws \in UNION {[1..n -> Vocabulary] : n \in 0..MaxPhrases}}

MentionedLists == {<<>>, <<E1>>, <<E1, E2>>}

IntentContexts ==
    {[made |-> FALSE, mentioned |-> <<>>]} \cup {[made |-> TRUE, mentioned |-> m] : m \in MentionedLists}

InitIntent ==
    /\ im \in IntentMessages
    /\ icm \in IntentContexts
    /\ ires = NoIntent
    /\ LedgerAtStart(Catalog(MaxTickets, MaxTickets))
    /\ SessionAtStart(FALSE, EmptyStore)

\* one call of extract_intent
ExtractIntent ==
    /\ ires = NoIntent
    /\ ires' = extract_intent(im, icm)
    /\ UNCHANGED <<im, icm>>
    /\ UNCHANGED ledgerVars
    /\ UNCHANGED sessionVars

NextIntent == ExtractIntent

SpecIntent == InitIntent /\ [][NextIntent]_vars

(***************************************************************************)
(* One connection: the data channel of main.py 110-127 and the             *)
(* ConversationManager behind it.  Every "message" event starts a task of  *)
(* the event loop that runs handle_message; a task runs from one await to  *)
(* the next, and the tasks of the loop take turns at the awaits.           *)
(***************************************************************************)
\* a context manager's view for extract_intent
IntentCm(cm) == [made |-> cm.made, mentioned |-> cm.context.last_mentioned_events]

\* no call of a booking tool
NoCall == Return(NewCall("none", None, None, 0, None), NoResult)

\* the invocation handle_message(message) before its first step
NewTask(message) ==
    [pc |-> "start", began |-> "", message |-> message, intent |-> NoIntent,
     call |-> NoCall, tool_result |-> "", generations |-> 0, stream |-> "none", chunks |-> 0,
     full_response |-> <<>>, sends |-> 0, outcome |-> "running"]

\* the invocation is over: it returned, or an exception left it
Finish(w, outcome) == [w EXCEPT !.task.pc = "done", !.task.outcome = outcome]

\* ConversationManager.send_reply
send_reply(w, text) ==
    IF ~w.ready THEN w
    ELSE [w EXCEPT !.sent = Append(@, [kind |-> "reply", text |-> text, task |-> w.tid]),
                   !.task.sends = @ + 1]

\* ConversationManager.send_chunk without the test of readyState
send_chunk_unchecked(w, chunk) ==
    [w EXCEPT !.sent = Append(@, [kind |-> "chunk", text |-> chunk, task |-> w.tid]),
              !.task.sends = @ + 1]

\* ConversationManager.send_chunk
send_chunk(w, chunk) ==
    IF ~w.ready THEN w
    ELSE [w EXCEPT !.sent = Append(@, [kind |-> "chunk", text |-> chunk, task |-> w.tid]),
                   !.task.sends = @ + 1]

\* ContextManager.add_message
add_message(w, role, content) ==
    [w EXCEPT !.cm.context.conversation_history = Append(@, [role |-> role, content |-> content])]

\* ContextManager.set_mentioned_events
set_mentioned_events(w, event_ids) ==
    [w EXCEPT !.cm.context.last_mentioned_events =
                  SubSeq(event_ids, 1, Min({Len(event_ids), MentionedBound}))]

\* ContextManager.set_last_search
set_last_search(w, query) == [w EXCEPT !.cm.context.last_search_query = query]

\* ContextManager.clear_pending_booking
clear_pending_booking(w) == [w EXCEPT !.cm.context.pending_booking = None]

\* ContextManager.save with the trim moved after the store write, where a
\* failed write skips it
save_trim_after_write(w) ==
    LET history == w.cm.context.conversation_history
        kept == IF Len(history) > HistoryBound
                THEN SubSeq(history, Len(history) - HistoryBound + 1, Len(history))
                ELSE history
        context == [w.cm.context EXCEPT !.conversation_history = kept]
    IN IF w.up THEN [w EXCEPT !.cm.context = context, !.store = SetKey(@, w.cm.phone, context)]
       ELSE w

\* ContextManager.save up to its await: the history trimmed, the context sent
\* to the store under the manager's phone number (a store that does not answer
\* raises, and save swallows it)
save(w) ==
    LET history == w.cm.context.conversation_history
        kept == IF Len(history) > HistoryBound
                THEN SubSeq(history, Len(history) - HistoryBound + 1, Len(history))
                ELSE history
        context == [w.cm.context EXCEPT !.conversation_history = kept]
    IN [w EXCEPT !.cm.context = context,
                 !.store = IF w.up THEN SetKey(@, w.cm.phone, context) ELSE @]

\* ContextManager.load with the stored context taken even from a store that
\* does not answer
load_from_dead_store(w) ==
    IF w.cm.phone \in DOMAIN w.store
    THEN [w EXCEPT !.cm.context = w.store[w.cm.phone]]
    ELSE w

\* ContextManager.load after its await: the stored context replaces the fresh
\* one when the store answers and holds the key
load(w) ==
    IF w.up /\ w.cm.phone \in DOMAIN w.store
    THEN [w EXCEPT !.cm.context = w.store[w.cm.phone]]
    ELSE w

\* bot_logic.py 167 with its test dropped
awaiting_phone_always(st) == TRUE

\* bot_logic.py 167
awaiting_phone(st) == st = STATE_AWAITING_PHONE

\* bot_logic.py 193-197 with the error reply replaced by the success reply
cancel_reply_always_done(result) == "cancel_done"

\* bot_logic.py 193-197: the reply of a cancel turn
cancel_reply(result) == IF result.status = "success" THEN "cancel_done" ELSE "cancel_error"

\* bot_logic.py 168, the test of a phone number without its length
valid_phone_any_length(message) == isdigit(message)

\* bot_logic.py 168 with the length as an upper bound
valid_phone_up_to_length(message) == isdigit(message) /\ Len(message) <= PhoneLen

\* bot_logic.py 168
valid_phone(message) == isdigit(message) /\ Len(message) = PhoneLen

\* len(message.split()) for a cleaned message
WordCount(message) ==
    IF message = <<>> THEN 0
    ELSE 1 + Cardinality({i \in DOMAIN message : IsSpace(message[i])})

\* bot_logic.py 248
is_complex(message) == WordCount(message) > ComplexWords \/ Contains(lower(message), W_similar)

\* rag_engine.py 100-105 over the events the engine loaded at startup
get_event_by_id(event_id) ==
    LET events == Catalog(0, 0)
        idx == FirstIndex(events, LAMBDA e : e.id = event_id)
    IN IF idx = 0 THEN NoEvent ELSE events[idx]

\* Values a tool of the engine hands back: a list of events, or the coroutine
\* object that calling an async def without await gives.
Coroutine == [kind |-> "coroutine", items |-> <<>>]
Truthy(v) == v.kind = "coroutine" \/ v.items # <<>>
Iterable(v) == v.kind = "list"

\* self.rag.find_similar_events(...) as bot_logic.py 231 calls it: the method
\* is async (rag_engine.py 107) and the call is not awaited
find_similar_events_call(event_id) == Coroutine

\* self.rag.search(...) as bot_logic.py 254 calls it: the method is async
\* (rag_engine.py 58) and the call is not awaited
search_call(query) == Coroutine

\* the keys the replies of bot_logic.py 206-208 and 222 read in a booking
BookedKeys == {"event_name", "event_date", "total_price", "quantity", "booking_id"}
ListedKeys == {"event_name", "event_date", "booking_id"}
HasKeys(record, keys) == keys \subseteq DOMAIN record

\* ContextManager.get_conversation_history 84-87: history[-limit:]
get_conversation_history(context, limit) ==
    LET history == context.conversation_history IN
    IF Len(history) > limit THEN SubSeq(history, Len(history) - limit + 1, Len(history))
    ELSE history

\* ContextManager.build_context_summary 115-133: whether a part is present
build_context_summary(context) ==
    IF \/ context.last_mentioned_events # <<>>
       \/ context.pending_booking # None
       \/ context.last_search_query # None
    THEN <<"context">> ELSE <<>>

\* _generate_llm_response 271-290: the messages handed to the provider
build_messages(context, user_message, tool_context) ==
    <<[role |-> "system", content |-> <<"system_prompt">>]>>
    \o (IF build_context_summary(context) # <<>>
        THEN <<[role |-> "system", content |-> build_context_summary(context)]>> ELSE <<>>)
    \o SelectSeq(get_conversation_history(context, HistoryLimit),
                 LAMBDA msg : msg.role \in {"user", "assistant"})
    \o (IF tool_context # "" THEN <<[role |-> "system", content |-> <<"tool_results">>]>> ELSE <<>>)
    \o <<[role |-> "user", content |-> user_message]>>

\* _generate_llm_response 270-293 up to the first fragment: the provider is
\* asked to generate
start_generation(w) ==
    [w EXCEPT !.task.pc = "llm", !.task.generations = @ + 1, !.task.stream = "open"]

\* bot_logic.py 266 up to its await
final_save(w) == [save(w) EXCEPT !.task.pc = "final"]

\* handle_message 164-183: up to the await of load, of save, or to the return
handle_start(w) ==
    LET message == _clean_message(w.task.message)
        w1 == [w EXCEPT !.task.message = message, !.task.began = w.state]
    IN
    IF awaiting_phone(w.state)
    THEN IF valid_phone(message)
         THEN [w1 EXCEPT !.phone_number = message,
                         !.state = STATE_CONVERSING,
                         !.cm = [made |-> TRUE, phone |-> message, context |-> FreshContext],
                         !.task.pc = "load"]
         ELSE Finish(send_reply(w1, "reprompt_phone"), "returned")
    ELSE [save(add_message(w1, "user", message)) EXCEPT !.task.pc = "saved"]

\* handle_message 174-179: load completes, the confirmation is sent
handle_load(w) == Finish(send_reply(load(w), "confirm_phone"), "returned")

\* handle_message 253-260: the body of the search branch after its indicator
search_body(w) ==
    LET w1 == set_last_search(w, w.task.message)
        results == search_call(w.task.message)
    IN
    IF Truthy(results)
    THEN IF Iterable(results)
         THEN start_generation([set_mentioned_events(w1, results.items)
                                   EXCEPT !.task.tool_result = "search_results"])
         ELSE Finish(w1, "TypeError")
    ELSE start_generation([w1 EXCEPT !.task.tool_result = "no_events_found"])

\* handle_message 231-236: the body of the similar branch after its indicator
similar_body(w) ==
    LET similar == find_similar_events_call(w.task.intent.event_id) IN
    IF Truthy(similar)
    THEN IF Iterable(similar)
         THEN start_generation([set_mentioned_events(w, similar.items)
                                   EXCEPT !.task.tool_result = "search_results"])
         ELSE Finish(w, "TypeError")
    ELSE start_generation([w EXCEPT !.task.tool_result = "no_similar_events"])

\* handle_message 239-244
details_body(w) ==
    LET event == get_event_by_id(w.task.intent.event_id) IN
    IF event # NoEvent
    THEN start_generation([set_mentioned_events(w, <<event.id>>)
                              EXCEPT !.task.tool_result = "event_details"])
    ELSE start_generation([w EXCEPT !.task.tool_result = "event_not_found"])

\* handle_message 186-260: save has completed; the intent is extracted and its
\* branch runs to its first await
handle_saved(w) ==
    LET intent == extract_intent(w.task.message, IntentCm(w.cm))
        w1 == [w EXCEPT !.task.intent = intent]
    IN
    CASE intent.type = "cancel" ->
            [w1 EXCEPT !.task.pc = "tool",
                       !.task.call = NewCall("cancel", w.phone_number, None, 0, intent.booking_id)]
      [] intent.type = "book" ->
            \* 201: the indicator and its sleep; book_ticket is called after it
            [send_reply(w1, "typing_book") EXCEPT !.task.pc = "tool",
                       !.task.call = NewCall("book", w.phone_number, intent.event_id,
                                             intent.quantity, None)]
      [] intent.type = "my_tickets" ->
            [w1 EXCEPT !.task.pc = "tool",
                       !.task.call = NewCall("my_tickets", w.phone_number, None, 0, None)]
      [] intent.type = "similar" ->
            [send_reply(w1, "typing_similar") EXCEPT !.task.pc = "similar"]
      [] intent.type = "details" -> details_body(w1)
      [] intent.type = "search" ->
            IF is_complex(w.task.message)
            THEN [send_reply(w1, "typing_search") EXCEPT !.task.pc = "search"]
            ELSE search_body(w1)

\* handle_message 193-227: the tool has returned
after_tool(w) ==
    LET result == w.task.call.result IN
    CASE w.task.call.op = "cancel" ->
            final_save(send_reply(w, cancel_reply(result)))
      [] w.task.call.op = "book" ->
            IF result.status = "success"
            THEN IF HasKeys(result.data[1], BookedKeys)
                 THEN [save(clear_pending_booking(send_reply(w, "booked")))
                          EXCEPT !.task.pc = "book_saved"]
                 ELSE Finish(w, "KeyError")
            ELSE start_generation([w EXCEPT !.task.tool_result = result.message])
      [] w.task.call.op = "my_tickets" ->
            IF result.status = "success"
            THEN IF \A k \in DOMAIN result.data : HasKeys(result.data[k], ListedKeys)
                 THEN final_save(send_reply(w, "your_bookings"))
                 ELSE Finish(w, "KeyError")
            ELSE final_save(send_reply(w, "no_bookings"))

\* the awaited file operation of the running tool completes
handle_tool(w) ==
    LET r == tool_step(w.task.call, w.kb, w.tk, w.clock)
        w1 == [w EXCEPT !.kb = r.kb, !.tk = r.tk, !.task.call = r.call]
    IN IF r.call.pc = "done" THEN after_tool(w1) ELSE w1

\* _generate_llm_response 293-300: the stream hands over a fragment, or the
\* apology the provider yields when it fails (llm_provider.py never raises),
\* or ends
handle_llm(w, choice) ==
    CASE choice = "chunk" ->
            send_chunk([w EXCEPT !.task.full_response = Append(@, "text"),
                                 !.task.chunks = @ + 1], "text")
      [] choice = "error" ->
            send_chunk([w EXCEPT !.task.full_response = Append(@, "apology"),
                                 !.task.stream = "failed"], "apology")
      [] choice = "end" ->
            [save(add_message(w, "assistant", w.task.full_response))
                EXCEPT !.task.pc = "llm_saved", !.task.stream = "ended"]

\* one step of handle_message: from the completion of an await to the next
handle_message_step(w, choice) ==
    CASE w.task.pc = "start" -> handle_start(w)
      [] w.task.pc = "load" -> handle_load(w)
      [] w.task.pc = "saved" -> handle_saved(w)
      [] w.task.pc = "tool" -> handle_tool(w)
      [] w.task.pc = "similar" -> similar_body(w)
      [] w.task.pc = "search" -> search_body(w)
      [] w.task.pc = "llm" -> handle_llm(w, choice)
      [] w.task.pc = "llm_saved" -> final_save(w)
      [] w.task.pc = "book_saved" -> final_save(w)
      [] w.task.pc = "final" -> Finish(w, "returned")

\* what the stream of the provider may do next
StreamChoices(task) ==
    IF task.pc # "llm" THEN {"none"}
    ELSE {"end"} \cup (IF task.stream = "open" THEN {"error"} ELSE {})
                 \cup (IF task.stream = "open" /\ task.chunks < MaxChunks THEN {"chunk"} ELSE {})

\* what a step of task t reads and may change
World(t) ==
    [state |-> state, phone_number |-> phone_number, cm |-> context_manager,
     sent |-> transport.sent, ready |-> transport.readyState = "open",
     store |-> redis.store, up |-> redis.client /\ redis.up,
     kb |-> kbFile, tk |-> tkFile, clock |-> now, tid |-> t, task |-> tasks[t]]

\* what the client may send
M_short == <<"1","2","3","4","5">>
M_padded == <<" ">> \o P1 \o <<" ", " ">>
M_mine == <<"m","y"," ","t","i","c","k","e","t","s">>

SessionMessages ==
    { P1, M_padded, P2, M_short,
      Join(<<W_cancel, T1>>),
      Join(<<W_book, E2>>), Join(<<W_book, E3>>),
      M_mine,
      Join(<<W_similar, W_that, <<"j","a","z","z">> >>),
      Join(<<W_price, W_that>>) }

\* a context an earlier conversation of the phone number left in the store
StoredContext == [FreshContext EXCEPT !.last_mentioned_events = <<E1, E3>>]

\* the store is outside the program: it is empty, or it holds a context for P1
InitialStores == {EmptyStore, SetKey(EmptyStore, P1, StoredContext)}

Init ==
    /\ \E client \in BOOLEAN, store \in InitialStores : SessionAtStart(client, store)
    /\ LedgerAtStart(Catalog(0, 1))
    /\ im = <<>>
    /\ icm = [made |-> FALSE, mentioned |-> <<>>]
    /\ ires = NoIntent

\* main.py 115-118 and initialize (bot_logic.py 44-65): the channel opens; with
\* a store that answers the greeting is sent, otherwise an apology, and the
\* channel is closed
OnOpen ==
    /\ transport.readyState = "connecting"
    /\ IF redis.client /\ redis.up
       THEN transport' = [readyState |-> "open",
                          sent |-> Append(transport.sent, [kind |-> "reply", text |-> "greeting", task |-> 0])]
       ELSE transport' = [readyState |-> "closed",
                          sent |-> Append(transport.sent, [kind |-> "reply", text |-> "connection_issues", task |-> 0])]
    /\ UNCHANGED <<state, phone_number, context_manager, redis, tasks>>
    /\ UNCHANGED ledgerVars
    /\ UNCHANGED intentVars

\* main.py 120-123: a message arrives on the open channel and the emitter
\* schedules on_message as a task of its own, whatever the earlier tasks are
\* doing (the client has at most MaxActive messages unanswered)
Deliver ==
    \E raw \in SessionMessages :
        /\ transport.readyState = "open"
        /\ Len(tasks) < MaxMsgs
        /\ Cardinality({t \in DOMAIN tasks : tasks[t].pc # "done"}) < MaxActive
        /\ tasks' = Append(tasks, NewTask(raw))
        /\ UNCHANGED <<state, phone_number, context_manager, transport, redis>>
        /\ UNCHANGED ledgerVars
        /\ UNCHANGED intentVars

\* the event loop resumes a task: it runs to its next await or to its end
\* (tasks begin in the order the loop was handed them; after that the awaited
\* operations complete in any order)
TaskStep ==
    \E t \in DOMAIN tasks :
        /\ tasks[t].pc # "done"
        /\ tasks[t].pc = "start" => \A u \in 1..(t - 1) : tasks[u].pc # "start"
        /\ \E choice \in StreamChoices(tasks[t]) :
             \E w \in {handle_message_step(World(t), choice)} :
             /\ state' = w.state
             /\ phone_number' = w.phone_number
             /\ context_manager' = w.cm
             /\ transport' = [transport EXCEPT !.sent = w.sent]
             /\ redis' = [redis EXCEPT !.store = w.store]
             /\ kbFile' = w.kb
             /\ tkFile' = w.tk
             /\ tasks' = [tasks EXCEPT ![t] = w.task]
        /\ UNCHANGED <<now, calls>>
        /\ UNCHANGED intentVars

\* the client goes away: the channel is no longer open
CloseTransport ==
    /\ transport.readyState = "open"
    /\ transport' = [transport EXCEPT !.readyState = "closed"]
    /\ UNCHANGED <<state, phone_number, context_manager, redis, tasks>>
    /\ UNCHANGED ledgerVars
    /\ UNCHANGED intentVars

\* the store stops answering
RedisDown ==
    /\ redis.client /\ redis.up
    /\ redis' = [redis EXCEPT !.up = FALSE]
    /\ UNCHANGED <<state, phone_number, context_manager, transport, tasks>>
    /\ UNCHANGED ledgerVars
    /\ UNCHANGED intentVars

Next ==
    \/ OnOpen
    \/ Deliver
    \/ TaskStep
    \/ CloseTransport
    \/ RedisDown

Spec == Init /\ [][Next]_vars

(***************************************************************************)
(* Properties of extract_intent, checked under SpecIntent.                 *)
(***************************************************************************)
(***************************************************************************)
(* ContextManager.resolve_reference on its own (context_manager.py         *)
(* 89-113): it is called twice with the same mentioned events and the same *)
(* text.  ires holds what the last call returned, what the call before it  *)
(* returned, and the number of calls.                                      *)
(***************************************************************************)
ReferenceWords ==
    { W_second, W_first, W_last, W_that, W_book,
      <<"i","t","e","m">>, <<"S","e","c","o","n","d">>, <<"o","n","e">> }

ReferenceTexts == {Join(ws) : ws \in UNION {[1..n -> ReferenceWords] : n \in 0..MaxPhrases}}

ReferenceLists == {<<>>, <<E1>>, <<E1, E2>>, <<E1, E2, E3>>}

InitResolve ==
    /\ im \in ReferenceTexts
    /\ icm \in {[made |-> TRUE, mentioned |-> m] : m \in ReferenceLists}
    /\ ires = [type |-> "reference", n |-> 0, event_id |-> None, before |-> None]
    /\ LedgerAtStart(Catalog(MaxTickets, MaxTickets))
    /\ SessionAtStart(FALSE, EmptyStore)

\* one call of resolve_reference(text)
ResolveReference ==
    /\ ires.n < 2
    /\ ires' = [type |-> "reference", n |-> ires.n + 1,
                event_id |-> resolve_reference(icm.mentioned, im), before |-> ires.event_id]
    /\ UNCHANGED <<im, icm>>
    /\ UNCHANGED ledgerVars
    /\ UNCHANGED sessionVars

NextResolve == ResolveReference

SpecResolve == InitResolve /\ [][NextResolve]_vars

(***************************************************************************)
(* A ContextManager on its own (context_manager.py 8-51): load called      *)
(* first, as handle_message does, then add_message, set_mentioned_events   *)
(* and save in any order on the manager of P1, against a store that        *)
(* answers, stops answering, or was never connected.  tasks holds the last *)
(* call made on the manager, with the context and the store as they were   *)
(* when the call started.  The content of a message is its number.         *)
(***************************************************************************)
ContextWorld ==
    [cm |-> context_manager, store |-> redis.store, up |-> redis.client /\ redis.up]

ContextCall(op) ==
    <<[op |-> op, pre |-> context_manager.context, stored |-> redis.store,
       failed |-> ~(redis.client /\ redis.up)]>>

\* the ids of a result list of n events
EventIds(n) == [i \in 1..n |-> IF i % 2 = 1 THEN E1 ELSE E2]

Added == IF tasks = <<>> THEN 0
         ELSE IF context_manager.context.conversation_history = <<>> THEN 0
         ELSE context_manager.context.conversation_history[
                  Len(context_manager.context.conversation_history)].content

InitContext ==
    /\ state = STATE_CONVERSING
    /\ phone_number = P1
    /\ context_manager = [made |-> TRUE, phone |-> P1, context |-> FreshContext]
    /\ transport = [readyState |-> "open", sent |-> <<>>]
    /\ \E client \in BOOLEAN, store \in InitialStores :
          redis = [client |-> client, up |-> client, store |-> store]
    /\ tasks = <<>>
    /\ LedgerAtStart(Catalog(MaxTickets, MaxTickets))
    /\ im = <<>> /\ icm = [made |-> FALSE, mentioned |-> <<>>] /\ ires = NoIntent

\* bot_logic.py 173-174: load is the first call made on a new manager
LoadContext ==
    /\ tasks = <<>>
    /\ context_manager' = load(ContextWorld).cm
    /\ tasks' = ContextCall("load")
    /\ UNCHANGED <<state, phone_number, transport, redis>>
    /\ UNCHANGED ledgerVars
    /\ UNCHANGED intentVars

AddMessage ==
    /\ Added < MaxAdds
    /\ context_manager' =
           add_message(ContextWorld, IF Added % 2 = 0 THEN "user" ELSE "assistant", Added + 1).cm
    /\ tasks' = ContextCall("add_message")
    /\ UNCHANGED <<state, phone_number, transport, redis>>
    /\ UNCHANGED ledgerVars
    /\ UNCHANGED intentVars

SetMentionedEvents ==
    /\ context_manager.made
    /\ \E n \in 0..MaxIds :
          context_manager' = set_mentioned_events(ContextWorld, EventIds(n)).cm
    /\ tasks' = ContextCall("set_mentioned_events")
    /\ UNCHANGED <<state, phone_number, transport, redis>>
    /\ UNCHANGED ledgerVars
    /\ UNCHANGED intentVars

SaveContext ==
    /\ context_manager.made
    /\ \E w \in {save(ContextWorld)} :
          /\ context_manager' = w.cm
          /\ redis' = [redis EXCEPT !.store = w.store]
    /\ tasks' = ContextCall("save")
    /\ UNCHANGED <<state, phone_number, transport>>
    /\ UNCHANGED ledgerVars
    /\ UNCHANGED intentVars

NextContext ==
    \/ LoadContext
    \/ AddMessage
    \/ SetMentionedEvents
    \/ SaveContext
    \/ RedisDown

SpecContext == InitContext /\ [][NextContext]_vars

(***************************************************************************)
(* LLMProvider.generate on its own (llm_provider.py 39-140).  tasks holds  *)
(* the one running call of generate: the provider's fields, the position   *)
(* of the generator, what it has yielded, the failure it met and how it    *)
(* ended.  What the backend does at each await is chosen freely.           *)
(***************************************************************************)
ErrorStrings ==
    {"gemini_not_configured", "trouble_thinking", "too_long", "cannot_connect",
     "error_generic", "gemini_error"}

\* LLMProvider.__init__ 18-25 and initialize 29-32: the session exists only for
\* the provider "ollama" and only once initialize has run; the Gemini model only
\* for the provider "gemini" with a key set; cleanup 34-37 closes the session
\* and leaves the closed session in self.session
Providers ==
    { [provider |-> p, session |-> s, closed |-> c, gemini_model |-> m] :
        p \in {"ollama", "gemini", "other"}, s \in BOOLEAN, c \in BOOLEAN, m \in BOOLEAN }

ProvidersBuilt ==
    { c \in Providers : /\ c.session => c.provider = "ollama"
                        /\ c.closed => c.session
                        /\ c.gemini_model => c.provider = "gemini" }

NewGeneration(c) ==
    [pc |-> "start", provider |-> c.provider, session |-> c.session,
     closed |-> c.closed, gemini_model |-> c.gemini_model, yielded |-> <<>>, failure |-> "none",
     outcome |-> "running"]

\* yield text
yield(g, text) == [g EXCEPT !.yielded = Append(@, text)]

\* the except clauses of _generate_ollama with the last one dropped
ollama_except_without_catch_all(exc) ==
    CASE exc = "TimeoutError" -> "too_long"
      [] exc = "ClientConnectorError" -> "cannot_connect"
      [] OTHER -> "raise"

\* the except clauses of _generate_ollama, 84-92: what is yielded for an
\* exception raised inside the try
ollama_except(exc) ==
    CASE exc = "TimeoutError" -> "too_long"
      [] exc = "ClientConnectorError" -> "cannot_connect"
      [] OTHER -> "error_generic"

\* an exception inside the try of _generate_ollama
ollama_raise(g, exc) ==
    IF ollama_except(exc) = "raise"
    THEN [g EXCEPT !.pc = "done", !.outcome = "raised", !.failure = exc]
    ELSE [yield(g, ollama_except(exc)) EXCEPT !.pc = "failed", !.failure = exc]

\* an exception inside the try of _generate_gemini, 138-140
gemini_raise(g, exc) == [yield(g, "gemini_error") EXCEPT !.pc = "failed", !.failure = exc]

\* the lines a received chunk may hold: a JSON object with message.content
\* ("content", "content_2", "empty_content"), a JSON object without it, a line
\* of white space, and a line that is not JSON
StreamLines == {"content", "content_2", "empty_content", "no_content", "blank", "bad_json"}

\* json_data['message']['content'] of a line, 76-77: what the line makes the
\* generator yield once json.loads has accepted it
Fragments(line) ==
    CASE line = "content" -> <<"text">>
      [] line = "content_2" -> <<"more">>
      [] line = "empty_content" -> <<"">>
      [] OTHER -> <<>>

RECURSIVE iter_lines(_, _)
\* 72-79: for line in data.splitlines() inside the try; json.loads raises
\* JSONDecodeError on a line that is not JSON and the except clause, which
\* encloses the whole loop, ends the loop over the lines of this chunk
iter_lines(g, lines) ==
    IF lines = <<>> THEN g
    ELSE IF Head(lines) = "bad_json" THEN g
    ELSE iter_lines([g EXCEPT !.yielded = @ \o Fragments(Head(lines))], Tail(lines))

\* 69-79: the body of async for chunk in response.content.iter_any()
iter_chunk(g, chunk) == iter_lines(g, chunk)

\* _generate_ollama from one await or yield to the next
_generate_ollama(g, ev) ==
    CASE g.pc = "start" ->
            [g EXCEPT !.session = @ \/ g.provider = "ollama", !.pc = "post"]
      [] g.pc = "post" ->
            IF ~g.session THEN ollama_raise(g, "AttributeError")
            \* 64: post on a session that was closed raises RuntimeError
            ELSE IF g.closed THEN ollama_raise(g, "RuntimeError")
            ELSE IF ev = "status_200" THEN [g EXCEPT !.pc = "stream"]
            ELSE IF ev = "status_other"
                 THEN [yield(g, "trouble_thinking") EXCEPT !.pc = "failed", !.failure = ev]
            ELSE ollama_raise(g, ev)
      [] g.pc = "stream" ->
            IF ev \in StreamLines THEN iter_chunk(g, <<ev>>)
            ELSE IF ev = "end" THEN [g EXCEPT !.pc = "done", !.outcome = "returned"]
            ELSE ollama_raise(g, ev)
      [] g.pc = "failed" -> [g EXCEPT !.pc = "done", !.outcome = "returned"]

\* _generate_gemini from one await or yield to the next
_generate_gemini(g, ev) ==
    CASE g.pc = "start" ->
            IF ~g.gemini_model
            THEN [yield(g, "gemini_not_configured")
                     EXCEPT !.pc = "failed", !.failure = "not_configured"]
            ELSE [g EXCEPT !.pc = "post"]
      [] g.pc = "post" ->
            IF ev = "stream" THEN [g EXCEPT !.pc = "stream"] ELSE gemini_raise(g, ev)
      [] g.pc = "stream" ->
            IF ev = "content" THEN yield(g, "text")
            ELSE IF ev = "no_content" THEN g
            ELSE IF ev = "end" THEN [g EXCEPT !.pc = "done", !.outcome = "returned"]
            ELSE gemini_raise(g, ev)
      [] g.pc = "failed" -> [g EXCEPT !.pc = "done", !.outcome = "returned"]

\* LLMProvider.generate 39-46
generate(g, ev) ==
    IF g.provider = "gemini" THEN _generate_gemini(g, ev) ELSE _generate_ollama(g, ev)

\* what the backend may do at the position of the generator
BackendEvents(g) ==
    IF g.pc \in {"start", "failed"} THEN {"none"}
    ELSE IF g.provider = "gemini"
    THEN IF g.pc = "post" THEN {"stream", "PermissionDenied", "DeadlineExceeded"}
         ELSE {"no_content", "end", "ValueError", "DeadlineExceeded"}
                 \cup (IF Len(g.yielded) < MaxYield THEN {"content"} ELSE {})
    ELSE IF g.pc = "post"
         THEN {"status_200", "status_other", "TimeoutError", "ClientConnectorError", "InvalidURL"}
         ELSE {"bad_json", "no_content", "end", "TimeoutError", "ClientPayloadError"}
                 \cup (IF Len(g.yielded) < MaxYield THEN {"content", "empty_content"} ELSE {})

InitProvider ==
    /\ state = STATE_CONVERSING
    /\ phone_number = P1
    /\ context_manager = [made |-> TRUE, phone |-> P1, context |-> FreshContext]
    /\ transport = [readyState |-> "open", sent |-> <<>>]
    /\ redis = [client |-> TRUE, up |-> TRUE, store |-> EmptyStore]
    /\ \E c \in ProvidersBuilt : tasks = <<NewGeneration(c)>>
    /\ LedgerAtStart(Catalog(MaxTickets, MaxTickets))
    /\ im = <<>> /\ icm = [made |-> FALSE, mentioned |-> <<>>] /\ ires = NoIntent

GenerateStep ==
    /\ tasks[1].pc # "done"
    /\ \E ev \in BackendEvents(tasks[1]) : tasks' = <<generate(tasks[1], ev)>>
    /\ UNCHANGED <<state, phone_number, context_manager, transport, redis>>
    /\ UNCHANGED ledgerVars
    /\ UNCHANGED intentVars

NextProvider == GenerateStep

SpecProvider == InitProvider /\ [][NextProvider]_vars

\* the chunks iter_any may hand over: up to MaxLines lines each
Chunks == UNION { [1..n -> StreamLines] : n \in 1..MaxLines }

Yields(chunk) == Len(SelectSeq(chunk, LAMBDA line : Fragments(line) # <<>>))

\* the local backend delivers a chunk of several lines
ReceiveChunk ==
    /\ tasks[1].pc = "stream"
    /\ tasks[1].provider # "gemini"
    /\ \E chunk \in Chunks :
          /\ Len(tasks[1].yielded) + Yields(chunk) <= MaxYield
          /\ tasks' = <<iter_chunk(tasks[1], chunk)>>
    /\ UNCHANGED <<state, phone_number, context_manager, transport, redis>>
    /\ UNCHANGED ledgerVars
    /\ UNCHANGED intentVars

NextStream == GenerateStep \/ ReceiveChunk

SpecStream == InitProvider /\ [][NextStream]_vars

(***************************************************************************)
(* The provider shared by the connections.  llm_provider is one object of  *)
(* the module (llm_provider.py 143); every ConversationManager initializes *)
(* it when its channel opens and cleans it up when its connection ends.    *)
(* tasks holds one record: the provider, the connections that are in       *)
(* conversation_managers, and the generation of the turn in progress.      *)
(***************************************************************************)
Connections == {"A", "B"}

\* no turn has asked for a generation yet
NoGeneration(c) == [NewGeneration(c) EXCEPT !.pc = "done", !.outcome = "none"]

\* LLMProvider.initialize 29-32
initialize(c) ==
    [c EXCEPT !.session = @ \/ c.provider = "ollama"]

\* LLMProvider.cleanup 34-37: await self.session.close(); self.session keeps
\* the closed session
cleanup(c) ==
    IF c.session /\ ~c.closed THEN [c EXCEPT !.closed = TRUE] ELSE c

\* the generation seen with the provider's fields as they are now, and the
\* provider after a step of the generation
WithProvider(g, c) == [g EXCEPT !.session = c.session, !.closed = c.closed]
ProviderAfter(c, g) == [c EXCEPT !.session = g.session]

InitShared ==
    /\ state = STATE_CONVERSING
    /\ phone_number = P1
    /\ context_manager = [made |-> TRUE, phone |-> P1, context |-> FreshContext]
    /\ transport = [readyState |-> "open", sent |-> <<>>]
    /\ redis = [client |-> TRUE, up |-> TRUE, store |-> EmptyStore]
    /\ \E c \in ProvidersBuilt :
          /\ ~c.session
          /\ tasks = <<[llm_provider |-> c, managers |-> Connections, opened |-> {},
                        turn_of |-> "A", turns |-> 0, cleaned |-> {},
                        generation |-> NoGeneration(c)]>>
    /\ LedgerAtStart(Catalog(MaxTickets, MaxTickets))
    /\ im = <<>> /\ icm = [made |-> FALSE, mentioned |-> <<>>] /\ ires = NoIntent

SharedUnchanged ==
    /\ UNCHANGED <<state, phone_number, context_manager, transport, redis>>
    /\ UNCHANGED ledgerVars
    /\ UNCHANGED intentVars

\* main.py 116-119 and bot_logic.py 44-51: the channel of a connection opens
ChannelOpen ==
    /\ tasks[1].managers # {}
    /\ \E k \in tasks[1].managers \ tasks[1].opened :
          tasks' = <<[tasks[1] EXCEPT !.opened = @ \cup {k},
                                      !.llm_provider = initialize(@)]>>
    /\ SharedUnchanged

\* bot_logic.py 270-293: a turn of an open connection asks for a generation;
\* cleaned records the connections that were cleaned up before it
TurnStart ==
    /\ tasks[1].generation.pc = "done"
    /\ tasks[1].turns < MaxTurns
    /\ \E k \in tasks[1].managers \cap tasks[1].opened :
          tasks' = <<[tasks[1] EXCEPT !.turn_of = k, !.turns = @ + 1,
                                      !.cleaned = Connections \ tasks[1].managers,
                                      !.generation = NewGeneration(tasks[1].llm_provider)]>>
    /\ SharedUnchanged

\* the generation of the turn from one await or yield to the next
TurnStep ==
    /\ tasks[1].generation.pc # "done"
    /\ \E g \in {WithProvider(tasks[1].generation, tasks[1].llm_provider)} :
       \E ev \in BackendEvents(g) :
       \E after \in {generate(g, ev)} :
          tasks' = <<[tasks[1] EXCEPT !.generation = after,
                                      !.llm_provider = ProviderAfter(@, after)]>>
    /\ SharedUnchanged

\* main.py 129-136 and bot_logic.py 67-70: a connection ends, its manager
\* cleans up and leaves conversation_managers; the connection is not the one
\* whose turn is in progress, and the other one is not reading a response
Disconnect ==
    /\ tasks[1].generation.pc \notin {"stream"}
    /\ \E k \in tasks[1].managers :
          /\ tasks[1].generation.pc # "done" => k # tasks[1].turn_of
          /\ tasks' = <<[tasks[1] EXCEPT !.managers = @ \ {k},
                                         !.llm_provider = cleanup(@)]>>
    /\ SharedUnchanged

NextShared == ChannelOpen \/ TurnStart \/ TurnStep \/ Disconnect

SpecShared == InitShared /\ [][NextShared]_vars

(***************************************************************************)
(* RAGEngine.search on its own (rag_engine.py 53-98), awaited, one call    *)
(* after the other.  kbFile holds the events the index was built from,     *)
(* redis the cache (client: a cache was attached with set_redis; up: it    *)
(* answers; store: the keys it holds with their expiry), now the time in   *)
(* seconds, and tasks the calls made, each with what it did.               *)
(***************************************************************************)
\* build_index 37-40: the text an event is indexed under
event_text(event) ==
    IF event.id = E1 THEN <<"J","a","z","z"," ","N","i","g","h","t">>
    ELSE IF event.id = E2 THEN <<"F","o","o","d"," ","T","r","a","i","l">>
    ELSE <<"N","i","g","h","t"," ","T","r","e","k">>

\* the catalog the index is built from: the two events of the ledger and a
\* third one
SearchCatalog ==
    Catalog(MaxTickets, MaxTickets) \o
    << [id |-> E3, name |-> "Night Trek", price |-> 200, tickets_available |-> MaxTickets] >>

\* an id no event of the catalog has
E9 == <<"e","v","t","9">>

SearchQueries ==
    { <<"j","a","z","z">>, <<"J","a","z","z"," ">>,
      <<"n","i","g","h","t"," ","t","r","e","k">>, <<"a">>, <<"t","a","x">> }

TopKs == {1, 5}

\* the model lowercases and trims the query before embedding it
encode(text) == lower(strip(text))

\* the one element of a set of one element
Only(S) == CHOOSE x \in S : TRUE

\* the words of a text
Words(text) ==
    { SubSeq(text, i, j) : <<i, j>> \in
        { p \in (1..Len(text)) \X (1..Len(text)) :
            /\ p[1] <= p[2]
            /\ \A n \in p[1]..p[2] : ~IsSpace(text[n])
            /\ p[1] = 1 \/ IsSpace(text[p[1] - 1])
            /\ p[2] = Len(text) \/ IsSpace(text[p[2] + 1]) } }

\* the squared distance between the embeddings of a query and of an event:
\* none for the event's own text, small when the query occurs in the event's
\* text, larger when they only share a word, large otherwise
Distance(query, event) ==
    IF encode(event_text(event)) = encode(query) THEN 0
    ELSE IF Contains(encode(event_text(event)), encode(query)) THEN 1
    ELSE IF Words(encode(event_text(event))) \cap Words(encode(query)) # {} THEN 2
    ELSE 3

\* index.search: the positions of the k nearest events, nearest first
index_search(events, query, k) ==
    Only({ LET positions == [i \in 1..Len(events) |-> i]
               at(d) == SelectSeq(positions, LAMBDA i : dist[i] = d)
           IN SubSeq(at(0) \o at(1) \o at(2) \o at(3), 1, k) :
           dist \in {[i \in 1..Len(events) |-> Distance(query, events[i])]} })

\* rag_engine.py 82-85: the event with its relevance 1 / (1 + dist)
Scored(events, query, idx) ==
    [id |-> events[idx].id, name |-> events[idx].name, price |-> events[idx].price,
     tickets_available |-> events[idx].tickets_available,
     _relevance |-> [num |-> 1, den |-> 1 + Distance(query, events[idx])]]

\* the relevance test with its bound included: r['_relevance'] >= 0.25
Relevant_or_at_bound(r) == 4 * r._relevance.num >= r._relevance.den

\* r['_relevance'] > 0.3
Relevant(r) == 10 * r._relevance.num > 3 * r._relevance.den

\* json.dumps and json.loads of a result list
dumps(value) == [json |-> value]
loads(text) == text.json

\* _cache_key with top_k left out of the hashed text
_cache_key_without_top_k(query, top_k) == <<lower(strip(query))>>

\* _cache_key 53-56: the hash of the lowered, stripped query and top_k
_cache_key(query, top_k) == <<lower(strip(query)), top_k>>

\* what search reads: the engine and its cache
Engine ==
    [events |-> kbFile, attached |-> redis.client, up |-> redis.up,
     store |-> redis.store, clock |-> now]

SearchCall(query, top_k, clock) ==
    [op |-> "search", event_id |-> None,
     query |-> query, top_k |-> top_k, at |-> clock, cache_answered |-> FALSE,
     cache_read |-> "none", embedded |-> FALSE, searched |-> FALSE,
     cache_written |-> FALSE, results |-> <<>>]

\* RAGEngine.search with the test of results dropped from line 91: an empty
\* result is written to the cache too
search_caching_empty_results(c, query, top_k) ==
    LET call == [SearchCall(query, top_k, c.clock) EXCEPT !.cache_answered = c.attached /\ c.up]
        key == _cache_key(query, top_k)
        live == /\ c.attached /\ c.up
                /\ key \in DOMAIN c.store
                /\ c.clock < c.store[key].expires
        nearest == index_search(c.events, query, Min({top_k, Len(c.events)}))
        scored == [n \in 1..Len(nearest) |-> Scored(c.events, query, nearest[n])]
        computed(results) ==
            [store |-> IF c.attached /\ c.up
                       THEN SetKey(c.store, key, [value |-> dumps(results),
                                                  expires |-> c.clock + CacheTtl])
                       ELSE c.store,
             call |-> [call EXCEPT !.cache_read = IF ~c.attached THEN "none"
                                                  ELSE IF c.up THEN "miss" ELSE "error",
                                   !.embedded = TRUE, !.searched = TRUE,
                                   !.cache_written = c.attached /\ c.up,
                                   !.results = results]]
    IN
    IF c.events = <<>> THEN [store |-> c.store, call |-> call]
    ELSE IF live
    THEN [store |-> c.store,
          call |-> [call EXCEPT !.cache_read = "hit", !.results = loads(c.store[key].value)]]
    ELSE Only({ computed(results) : results \in {SelectSeq(scored, Relevant)} })

\* RAGEngine.search: the store it leaves and the call as it went
search(c, query, top_k) ==
    LET call == [SearchCall(query, top_k, c.clock) EXCEPT !.cache_answered = c.attached /\ c.up]
        key == _cache_key(query, top_k)
        live == /\ c.attached /\ c.up
                /\ key \in DOMAIN c.store
                /\ c.clock < c.store[key].expires
        nearest == index_search(c.events, query, Min({top_k, Len(c.events)}))
        scored == [n \in 1..Len(nearest) |-> Scored(c.events, query, nearest[n])]
        computed(results) ==
            [store |-> IF c.attached /\ c.up /\ results # <<>>
                       THEN SetKey(c.store, key, [value |-> dumps(results),
                                                  expires |-> c.clock + CacheTtl])
                       ELSE c.store,
             call |-> [call EXCEPT !.cache_read = IF ~c.attached THEN "none"
                                                  ELSE IF c.up THEN "miss" ELSE "error",
                                   !.embedded = TRUE, !.searched = TRUE,
                                   !.cache_written = c.attached /\ c.up /\ results # <<>>,
                                   !.results = results]]
    IN
    IF c.events = <<>> THEN [store |-> c.store, call |-> call]
    ELSE IF live
    THEN [store |-> c.store,
          call |-> [call EXCEPT !.cache_read = "hit", !.results = loads(c.store[key].value)]]
    ELSE Only({ computed(results) : results \in {SelectSeq(scored, Relevant)} })

\* RAGEngine.find_similar_events with the source event left in the results
find_similar_events_unfiltered(c, event_id, top_k) ==
    LET idx == FirstIndex(c.events, LAMBDA e : e.id = event_id)
        r == search(c, event_text(c.events[idx]), top_k + 1)
    IN
    IF idx = 0
    THEN [store |-> c.store,
          call |-> [SearchCall(<<>>, top_k, c.clock)
                       EXCEPT !.op = "find_similar_events", !.event_id = event_id]]
    ELSE [store |-> r.store,
          call |-> [r.call EXCEPT !.op = "find_similar_events", !.event_id = event_id,
                                  !.top_k = top_k,
                                  !.results = SubSeq(r.call.results, 1,
                                                     Min({top_k, Len(r.call.results)}))]]

\* RAGEngine.find_similar_events 107-120, awaited: the store it leaves and the
\* call as it went
find_similar_events(c, event_id, top_k) ==
    LET idx == FirstIndex(c.events, LAMBDA e : e.id = event_id)
        r == search(c, event_text(c.events[idx]), top_k + 1)
        others == SelectSeq(r.call.results, LAMBDA e : e.id # event_id)
    IN
    IF idx = 0
    THEN [store |-> c.store,
          call |-> [SearchCall(<<>>, top_k, c.clock)
                       EXCEPT !.op = "find_similar_events", !.event_id = event_id]]
    ELSE [store |-> r.store,
          call |-> [r.call EXCEPT !.op = "find_similar_events", !.event_id = event_id,
                                  !.top_k = top_k,
                                  !.results = SubSeq(others, 1, Min({top_k, Len(others)}))]]

SimilarIds == {E1, E2, E3, E9}

SimilarTopKs == {0, 1, 3}

InitSearch ==
    /\ state = STATE_CONVERSING
    /\ phone_number = P1
    /\ context_manager = [made |-> TRUE, phone |-> P1, context |-> FreshContext]
    /\ transport = [readyState |-> "open", sent |-> <<>>]
    /\ \E attached \in BOOLEAN :
          redis = [client |-> attached, up |-> attached, store |-> EmptyStore]
    /\ tasks = <<>>
    /\ kbFile \in {EmptyKb, SearchCatalog}
    /\ tkFile = EmptyTickets /\ now = 0 /\ calls = <<>>
    /\ im = <<>> /\ icm = [made |-> FALSE, mentioned |-> <<>>] /\ ires = NoIntent

Search ==
    /\ Len(tasks) < MaxSearches
    /\ \E query \in SearchQueries, top_k \in TopKs :
          \E r \in {search(Engine, query, top_k)} :
              /\ tasks' = Append(tasks, r.call)
              /\ redis' = [redis EXCEPT !.store = r.store]
    /\ UNCHANGED <<state, phone_number, context_manager, transport>>
    /\ UNCHANGED ledgerVars
    /\ UNCHANGED intentVars

\* the time to live of a cache entry goes by
TtlPasses ==
    /\ now < MaxClock * CacheTtl
    /\ now' = now + CacheTtl
    /\ UNCHANGED <<kbFile, tkFile, calls>>
    /\ UNCHANGED intentVars
    /\ UNCHANGED sessionVars

FindSimilar ==
    /\ Len(tasks) < MaxSearches
    /\ \E event_id \in SimilarIds, top_k \in SimilarTopKs :
          \E r \in {find_similar_events(Engine, event_id, top_k)} :
              /\ tasks' = Append(tasks, r.call)
              /\ redis' = [redis EXCEPT !.store = r.store]
    /\ UNCHANGED <<state, phone_number, context_manager, transport>>
    /\ UNCHANGED ledgerVars
    /\ UNCHANGED intentVars

\* find_similar_events called on an engine with or without a cache
NextSimilar ==
    \/ FindSimilar
    \/ TtlPasses
    \/ RedisDown

SpecSimilar == InitSearch /\ [][NextSimilar]_vars

NextSearch ==
    \/ Search
    \/ TtlPasses
    \/ RedisDown

SpecSearch == InitSearch /\ [][NextSearch]_vars

(***************************************************************************)
(* The book branch of a turn on its own (bot_logic.py 186, 200-202): the   *)
(* intent is extracted from a message and, when it is book, book_ticket is *)
(* called once with the event id and the quantity of the intent.           *)
(***************************************************************************)
InitBookRef ==
    /\ im \in IntentMessages
    /\ icm \in IntentContexts
    /\ ires = NoIntent
    /\ \E t1 \in 0..MaxTickets : LedgerAtStart(Catalog(t1, MaxTickets))
    /\ SessionAtStart(FALSE, EmptyStore)

\* bot_logic.py 202: book_ticket(intent["event_id"], intent["quantity"], self.phone_number)
BookIntent ==
    /\ ires # NoIntent
    /\ ires.type = "book"
    /\ calls = <<>>
    /\ StartCall(NewCall("book", P1, ires.event_id, ires.quantity, None))

NextBookRef ==
    \/ ExtractIntent
    \/ BookIntent
    \/ CallStep
    \/ Tick

SpecBookRef == InitBookRef /\ [][NextBookRef]_vars

IntentTypes == {"cancel", "book", "my_tickets", "similar", "details", "search"}

\* the reference of the message resolves against the context
Resolvable == icm.made /\ resolve_reference(icm.mentioned, im) # None

\* the keys the dict of each intent holds
IntentKeys(type) ==
    CASE type = "cancel" -> {"type", "booking_id"}
      [] type = "book" -> {"type", "event_id", "quantity"}
      [] type \in {"similar", "details"} -> {"type", "event_id"}
      [] type = "search" -> {"type", "query"}
      [] OTHER -> {"type"}

\* no rule above the fallback produces an intent for the message
NoRuleApplies ==
    LET l == lower(im) IN
    /\ ~cancel_match(l)
    /\ ~book_match(l)
    /\ ~(book_ref_match(l) /\ Resolvable)
    /\ ~my_tickets_match(l)
    /\ ~(similar_match(l) /\ Resolvable)
    /\ ~(details_match(l) /\ details_ref_match(l) /\ Resolvable)

\* C9: extract_intent is total and single-valued: for every message and every
\* context (no context manager and an empty mentioned list included) the call
\* returns one intent of the six types, holding the keys of its type, and it is
\* search with the message itself as query exactly when no other rule applies.
C9_IntentTotalWithSearchFallback ==
    ires # NoIntent =>
        /\ ires.type \in IntentTypes
        /\ DOMAIN ires = IntentKeys(ires.type)
        /\ NoRuleApplies <=> ires.type = "search"
        /\ ires.type = "search" => ires.query = im

\* a message with a capital letter and a book-by-reference phrase, sent with no
\* context manager, came back as a search for the message as it was written
C9_Witness ==
    /\ ires = [type |-> "search", query |-> im]
    /\ ~icm.made
    /\ book_ref_match(lower(im))
    /\ lower(im) # im

\* C10: the rules are tried in the order cancel, book with an explicit id, book
\* by reference, my tickets, similar, details, search, and the first that matches
\* decides the intent, whatever later rules match too.
C10_FirstMatchingRuleWins ==
    ires # NoIntent =>
        LET l == lower(im)
            r1 == cancel_match(l)
            r2 == book_match(l)
            r3 == book_ref_match(l) /\ Resolvable
            r4 == my_tickets_match(l)
            r5 == similar_match(l) /\ Resolvable
            r6 == details_match(l) /\ details_ref_match(l) /\ Resolvable
            ref == resolve_reference(icm.mentioned, im)
        IN
        /\ r1 => ires = [type |-> "cancel", booking_id |-> cancel_group2(l)]
        /\ ~r1 /\ r2 => ires.type = "book" /\ ires.event_id = book_group2(l)
        /\ ~r1 /\ ~r2 /\ r3 => ires.type = "book" /\ ires.event_id = ref
        /\ ~r1 /\ ~r2 /\ ~r3 /\ r4 => ires = [type |-> "my_tickets"]
        /\ ~r1 /\ ~r2 /\ ~r3 /\ ~r4 /\ r5 => ires = [type |-> "similar", event_id |-> ref]
        /\ ~r1 /\ ~r2 /\ ~r3 /\ ~r4 /\ ~r5 /\ r6 => ires = [type |-> "details", event_id |-> ref]
        /\ ~r1 /\ ~r2 /\ ~r3 /\ ~r4 /\ ~r5 /\ ~r6 => ires.type = "search"

\* a message with a cancel verb and a tic_ id and also a book verb and an evt id
\* came back as cancel
C10_Witness ==
    /\ ires.type = "cancel"
    /\ ires.booking_id = T1
    /\ book_match(lower(im))

\* the message reads as a booking by reference, nothing has been mentioned that
\* the reference could mean, and neither rule above that one claims the message
UnresolvedBookReference ==
    /\ ires # NoIntent
    /\ book_ref_match(lower(im))
    /\ ~icm.made \/ icm.mentioned = <<>>
    /\ ~cancel_match(lower(im))
    /\ ~book_match(lower(im))

\* C11 as stated: a message that matches the book-by-reference rule while no
\* event has been mentioned comes back as search with the message as query
\* (here even restricted to the messages no earlier rule claims).
C11_UnresolvedReferenceIsSearch ==
    UnresolvedBookReference => ires = [type |-> "search", query |-> im]

\* C11 amended: a message that matches the book-by-reference rule while no
\* event has been mentioned, and that neither the cancel nor the explicit-id
\* book rule claims, falls through to the later rules: it comes back as
\* my_tickets when it also matches the my-tickets rule, and otherwise as search
\* with the message as query; it never comes back as book, similar or details.
C11_UnresolvedReferenceFallsThrough ==
    UnresolvedBookReference =>
        IF my_tickets_match(lower(im))
        THEN ires = [type |-> "my_tickets"]
        ELSE ires = [type |-> "search", query |-> im]

\* a booking by reference sent with a context manager that has no mentioned
\* event, which also names the user's tickets, came back as my_tickets
C11_Witness ==
    /\ UnresolvedBookReference
    /\ icm.made
    /\ ires = [type |-> "my_tickets"]

(***************************************************************************)
(* Properties of resolve_reference, checked under SpecResolve.             *)
(***************************************************************************)
\* "second" is the only reference word the text holds: none of the words the
\* function looks for before it (that, this, it, first) or after it (last)
\* occurs in the text, not even inside another word
SecondOnly(text) ==
    /\ Contains(lower(text), W_second)
    /\ \A w \in {W_that, W_this, W_it, W_first, W_last} : ~Contains(lower(text), w)

LastOf(list, n) ==
    IF Len(list) > n THEN SubSeq(list, Len(list) - n + 1, Len(list)) ELSE list

\* C14: when save has returned, whether its store write went through or
\* failed, conversation_history holds at most 10 entries, the most recent of
\* those it held before, and last_mentioned_events holds at most 5 ids.
C14_SaveKeepsBounds ==
    (tasks # <<>> /\ tasks[1].op = "save") =>
        /\ Len(context_manager.context.conversation_history) <= HistoryBound
        /\ context_manager.context.conversation_history = LastOf(tasks[1].pre.conversation_history, HistoryBound)
        /\ Len(context_manager.context.last_mentioned_events) <= MentionedBound

\* twelve messages added and six ids mentioned before a save whose store
\* write failed: messages 3 to 12 and five ids are kept
C14_Witness ==
    /\ tasks # <<>> /\ tasks[1].op = "save" /\ tasks[1].failed
    /\ Len(tasks[1].pre.conversation_history) = MaxAdds
    /\ Len(context_manager.context.conversation_history) = HistoryBound
    /\ context_manager.context.conversation_history[1].content = MaxAdds - HistoryBound + 1
    /\ Len(context_manager.context.last_mentioned_events) = MentionedBound

\* C16: load and save return whatever the store does.  A load that found
\* nothing stored, or whose read failed, leaves the fresh empty context; a
\* load that read a stored context leaves that context; a save whose write
\* failed leaves the store as it was and the context in memory as it was,
\* trimmed, and further calls on it work.
C16_StoreFailuresAreSwallowed ==
    tasks # <<>> =>
        /\ (tasks[1].op = "load" /\ (tasks[1].failed \/ P1 \notin DOMAIN tasks[1].stored)) =>
               context_manager.context = FreshContext
        /\ (tasks[1].op = "load" /\ ~tasks[1].failed /\ P1 \in DOMAIN tasks[1].stored) =>
               context_manager.context = tasks[1].stored[P1]
        /\ (tasks[1].op = "save" /\ tasks[1].failed) =>
               /\ redis.store = tasks[1].stored
               /\ context_manager.context =
                      [tasks[1].pre EXCEPT !.conversation_history = LastOf(@, HistoryBound)]
               /\ Added < MaxAdds => ENABLED AddMessage

\* a store that holds a context for the phone number but has stopped
\* answering: load has returned and the context is the fresh one
C16_Witness ==
    /\ tasks # <<>> /\ tasks[1].op = "load" /\ tasks[1].failed
    /\ redis.client /\ P1 \in DOMAIN redis.store
    /\ redis.store[P1] # FreshContext
    /\ context_manager.context = FreshContext

(***************************************************************************)
(* Properties of the generation provider, checked under SpecProvider.      *)
(***************************************************************************)
\* C18: no exception leaves generate.  Whatever the backend does (timeout,
\* refused connection, non-200 status, no key, no session, any other
\* exception, before or in the middle of the stream), for the local and the
\* hosted backend alike, the last thing the stream yields is one of the
\* provider's error sentences, and the call then ends by returning.
C18_GenerateNeverRaises ==
    /\ tasks[1].outcome # "raised"
    /\ tasks[1].pc = "done" => tasks[1].outcome = "returned"
    /\ tasks[1].failure # "none" =>
          /\ tasks[1].yielded # <<>>
          /\ tasks[1].yielded[Len(tasks[1].yielded)] \in ErrorStrings
          /\ tasks[1].pc \in {"failed", "done"}

\* the local backend answered 200 and sent a fragment, then the body broke:
\* the fragment and the generic error sentence were yielded and the call
\* returned
C18_Witness ==
    /\ tasks[1].provider = "ollama"
    /\ tasks[1].failure = "ClientPayloadError"
    /\ tasks[1].yielded = <<"text", "error_generic">>
    /\ tasks[1].outcome = "returned"

(***************************************************************************)
(* Properties of the cached search, checked under SpecSearch.              *)
(***************************************************************************)
\* call j repeats call i: the same query and top_k, later
Repeats(i, j) ==
    /\ i < j
    /\ tasks[i].op = "search" /\ tasks[j].op = "search"
    /\ tasks[j].query = tasks[i].query
    /\ tasks[j].top_k = tasks[i].top_k

\* the cache is attached, answered both calls, and an entry written by call i
\* has not reached its time to live when call j is made
CacheInReach(i, j) ==
    /\ redis.client
    /\ tasks[i].cache_answered /\ tasks[j].cache_answered
    /\ tasks[j].at < tasks[i].at + CacheTtl

ServedFromCache(j) ==
    tasks[j].cache_read = "hit" /\ ~tasks[j].embedded /\ ~tasks[j].searched

\* C20 as stated: with a cache attached and answering, a call that repeats an
\* earlier one returns the same results and is served from the cache.
C20_RepeatedSearchServedFromCache ==
    \A i, j \in DOMAIN tasks :
        (Repeats(i, j) /\ CacheInReach(i, j)) =>
            tasks[j].results = tasks[i].results /\ ServedFromCache(j)

\* C20: a call that repeats an earlier one returns the same results; with a
\* cache attached and answering it is served from the cache, without embedding
\* the query or searching the index, when the earlier call found at least one
\* event.
C20_RepeatedNonEmptySearchServedFromCache ==
    \A i, j \in DOMAIN tasks :
        Repeats(i, j) =>
            /\ tasks[j].results = tasks[i].results
            /\ (CacheInReach(i, j) /\ tasks[i].results # <<>>) => ServedFromCache(j)

\* the query "a" asked twice with top_k 5: both events found, the second
\* call a cache hit with the same two events
C20_Witness ==
    /\ Len(tasks) >= 2
    /\ Repeats(1, 2) /\ CacheInReach(1, 2)
    /\ tasks[1].embedded /\ tasks[1].cache_written
    /\ Len(tasks[1].results) = 2
    /\ ServedFromCache(2)
    /\ tasks[2].results = tasks[1].results

\* C22: search returns at most top_k events, each with a relevance
\* 1 / (1 + d) above 0.3, the nearest first; with no events indexed it returns
\* none.
C22_SearchBoundedRelevantOrdered ==
    \A n \in DOMAIN tasks :
        tasks[n].op = "search" =>
            /\ Len(tasks[n].results) <= tasks[n].top_k
            /\ \A i \in DOMAIN tasks[n].results :
                   /\ tasks[n].results[i]._relevance.num = 1
                   /\ 10 * tasks[n].results[i]._relevance.num > 3 * tasks[n].results[i]._relevance.den
                   /\ \E e \in DOMAIN kbFile :
                          /\ kbFile[e].id = tasks[n].results[i].id
                          /\ tasks[n].results[i]._relevance.den = 1 + Distance(tasks[n].query, kbFile[e])
            /\ \A i, j \in DOMAIN tasks[n].results :
                   i < j => tasks[n].results[i]._relevance.den <= tasks[n].results[j]._relevance.den
            /\ kbFile = EmptyKb => tasks[n].results = <<>>

\* the query "night trek" with top_k 5: Night Trek comes back first, then
\* Jazz Night, which shares a word, and Food Trail, too far away, is left out
C22_Witness ==
    \E n \in DOMAIN tasks :
        /\ tasks[n].op = "search" /\ tasks[n].searched
        /\ tasks[n].query = <<"n","i","g","h","t"," ","t","r","e","k">> /\ tasks[n].top_k = 5
        /\ Len(tasks[n].results) = 2
        /\ tasks[n].results[1].id = E3 /\ tasks[n].results[2].id = E1
        /\ tasks[n].results[1]._relevance.den < tasks[n].results[2]._relevance.den

\* what search returns on an engine with no cache attached
Uncached(query, top_k) ==
    search([Engine EXCEPT !.attached = FALSE], query, top_k).call.results

\* the call a step has just made
NewCallMade == tasks'[Len(tasks')]

InCatalog(event_id) == \E i \in DOMAIN kbFile : kbFile[i].id = event_id

\* C21: find_similar_events returns at most top_k events, none of which is
\* the event asked about, and no event at all for an id the catalog does not
\* hold.
C21_SimilarExcludesSource ==
    \A n \in DOMAIN tasks :
        tasks[n].op = "find_similar_events" =>
            /\ Len(tasks[n].results) <= tasks[n].top_k
            /\ \A i \in DOMAIN tasks[n].results : tasks[n].results[i].id # tasks[n].event_id
            /\ ~InCatalog(tasks[n].event_id) => tasks[n].results = <<>>

\* the events similar to Jazz Night, three asked for: the search found Jazz
\* Night itself first, and only Night Trek is returned
C21_Witness ==
    \E n \in DOMAIN tasks :
        /\ tasks[n].op = "find_similar_events"
        /\ tasks[n].event_id = E1 /\ tasks[n].top_k = 3
        /\ tasks[n].searched
        /\ Len(tasks[n].results) = 1 /\ tasks[n].results[1].id = E3

(***************************************************************************)
(* Properties of the book branch, checked under SpecBookRef.               *)
(***************************************************************************)
\* price of the event with the id in a catalog (0 when it has none)
PriceOf(kb, event_id) ==
    LET idx == FirstIndex(kb, LAMBDA e : e.id = event_id) IN
    IF idx = 0 THEN 0 ELSE kb[idx].price

\* the text is tic_ followed by decimal digits only
IsTicDigits(id) ==
    /\ Len(id) > Len(W_tic_)
    /\ SubSeq(id, 1, Len(W_tic_)) = W_tic_
    /\ isdigit(SubSeq(id, Len(W_tic_) + 1, Len(id)))

\* the message is decided by the book-by-reference rule, names no quantity,
\* and is sent when events have been mentioned
BookThat ==
    /\ book_ref_match(lower(im))
    /\ ~cancel_match(lower(im))
    /\ ~book_match(lower(im))
    /\ ~quantity_match(lower(im))
    /\ icm.made /\ icm.mentioned # <<>>

\* C12: a book-by-reference message with no quantity phrase, sent when events
\* have been mentioned, comes back as book of the first mentioned event with
\* quantity 1; and when that event has at least one ticket, book_ticket
\* succeeds with total_price equal to the price of one ticket and a booking id
\* made of tic_ and digits.
C12_BookThatBooksFirstMentioned ==
    (BookThat /\ ires # NoIntent) =>
        /\ ires = [type |-> "book", event_id |-> icm.mentioned[1], quantity |-> 1]
        /\ \A i \in DOMAIN calls :
              ( /\ ~Running(i)
                /\ TicketsOf(calls[i].pre.kb, icm.mentioned[1]) >= 1 )
              => /\ calls[i].c.result.status = "success"
                 /\ calls[i].c.result.data[1].event_id = icm.mentioned[1]
                 /\ calls[i].c.result.data[1].quantity = 1
                 /\ calls[i].c.result.data[1].total_price
                        = PriceOf(calls[i].pre.kb, icm.mentioned[1])
                 /\ IsTicDigits(calls[i].c.result.data[1].booking_id)

\* "book that" with two events mentioned has booked the first of them, which
\* had tickets, for the price of one ticket
C12_Witness ==
    /\ BookThat
    /\ Len(icm.mentioned) = 2
    /\ calls # <<>>
    /\ Succeeded(calls[1])
    /\ calls[1].c.result.data[1].total_price = PriceOf(kbFile, icm.mentioned[1])
    /\ calls[1].c.result.data[1].total_price > 0
    /\ UserTickets(tkFile, P1) = <<calls[1].c.result.data[1]>>

(***************************************************************************)
(* Properties of one connection, checked under Spec.                       *)
(***************************************************************************)
\* task t takes the first step of handle_message in this step
Starts(t) == tasks[t].pc = "start" /\ tasks'[t].pc # "start"

\* this step sends exactly one reply, of task t, with the text
Replies(t, text) ==
    transport'.sent = Append(transport.sent, [kind |-> "reply", text |-> text, task |-> t])

\* this step sends nothing
Silent == transport'.sent = transport.sent

Open == transport.readyState = "open"

\* the first step of an invocation that finds the session awaiting the phone
\* number and is handed a message satisfying Accepted either accepts it as the
\* phone number, or rejects it with the re-prompt and changes nothing else
PhoneStep(t, accepted) ==
    IF accepted
    THEN /\ state' = STATE_CONVERSING
         /\ phone_number' = _clean_message(tasks[t].message)
         /\ context_manager'.made
         /\ tasks'[t].pc = "load"
    ELSE /\ state' = STATE_AWAITING_PHONE
         /\ phone_number' = None
         /\ context_manager' = NoContextManager
         /\ tasks'[t].pc = "done" /\ tasks'[t].outcome = "returned"
         /\ IF Open THEN Replies(t, "reprompt_phone") ELSE Silent

\* the step of an invocation that completes the load of the context sends the
\* confirmation prompt and returns
LoadStep(t) ==
    /\ tasks'[t].pc = "done" /\ tasks'[t].outcome = "returned"
    /\ state' = STATE_CONVERSING /\ phone_number' = phone_number
    /\ IF Open THEN Replies(t, "confirm_phone") ELSE Silent

\* C1 as stated: while the session awaits the phone number, a message that is a
\* 10-digit all-numeric string moves it to CONVERSING with that string as the
\* phone number, and any other string leaves state, phone number and context
\* manager as they were and is answered with the re-prompt.
C1_TenDigitStringAccepted ==
    [][\A t \in DOMAIN tasks :
          (Starts(t) /\ state = STATE_AWAITING_PHONE) =>
              PhoneStep(t, isdigit(tasks[t].message) /\ Len(tasks[t].message) = 10)]_vars

\* C1 amended: while the session awaits the phone number, a message whose form
\* after _clean_message (surrounding whitespace stripped, inner runs of
\* whitespace collapsed) is a 10-digit all-numeric string moves the session to
\* CONVERSING with the cleaned string as the phone number, and the confirmation
\* prompt is sent when the load of the context completes; any other message
\* leaves state, phone number and context manager as they were and is answered
\* with the re-prompt (replies reach the client while the transport is open).
C1_CleanedTenDigitStringAccepted ==
    [][\A t \in DOMAIN tasks :
          /\ (Starts(t) /\ state = STATE_AWAITING_PHONE) =>
                 PhoneStep(t, /\ isdigit(_clean_message(tasks[t].message))
                              /\ Len(_clean_message(tasks[t].message)) = 10)
          /\ (tasks[t].pc = "load" /\ tasks'[t].pc # "load") => LoadStep(t)]_vars

\* a run in which one message was rejected with the re-prompt and a later one
\* was accepted and confirmed
C1_Witness ==
    \E t1, t2 \in DOMAIN tasks :
        /\ t1 < t2
        /\ tasks[t1].began = STATE_AWAITING_PHONE /\ tasks[t1].pc = "done"
        /\ tasks[t2].began = STATE_AWAITING_PHONE /\ tasks[t2].pc = "done"
        /\ state = STATE_CONVERSING /\ phone_number = tasks[t2].message
        /\ \E i, j \in DOMAIN transport.sent :
              /\ i < j
              /\ transport.sent[i] = [kind |-> "reply", text |-> "reprompt_phone", task |-> t1]
              /\ transport.sent[j] = [kind |-> "reply", text |-> "confirm_phone", task |-> t2]

\* an invocation has begun and has not ended
Active(t) == tasks[t].pc \notin {"start", "done"}

\* the invocation ran the conversation branch of handle_message and is over
TurnOver(t) == tasks[t].began = STATE_CONVERSING /\ tasks[t].pc = "done"

\* C2: while CONVERSING, an invocation of handle_message on an open transport
\* ends by returning, with at least one reply sent, whatever the intent and the
\* outcome of its branch; no exception leaves it.
C2_EveryTurnRepliesAndReturns ==
    \A t \in DOMAIN tasks :
        (TurnOver(t) /\ Open) => tasks[t].outcome = "returned" /\ tasks[t].sends >= 1

\* C3: once the session is CONVERSING it stays CONVERSING and its phone number
\* never changes, whatever arrives and whatever the tasks do.
C3_ConversingIsTerminal ==
    [][state = STATE_CONVERSING =>
          state' = STATE_CONVERSING /\ phone_number' = phone_number]_vars

\* a conversation turn whose message is itself a valid phone number, other than
\* the session's, is over
C3_Witness ==
    \E t \in DOMAIN tasks :
        /\ TurnOver(t)
        /\ valid_phone(tasks[t].message)
        /\ tasks[t].message # phone_number
        /\ state = STATE_CONVERSING

\* C4: the invocations of handle_message of one connection do not overlap: at
\* most one has begun and not ended.
C4_TurnsSequential ==
    Cardinality({t \in DOMAIN tasks : Active(t)}) <= 1

\* the booking id of the cancel call of task t is not in the list the ledger
\* holds for the session's phone number
NotBookedByUser(t) ==
    \A k \in DOMAIN UserTickets(tkFile, phone_number) :
        UserTickets(tkFile, phone_number)[k].booking_id # tasks[t].call.booking_id

\* C7: a cancel turn whose booking id is not in the user's list answers with
\* the error reply without asking the provider, and changes neither the ledger
\* nor the catalog.
C7_CancelUnknownIdChangesNothing ==
    [][\A t \in DOMAIN tasks :
          ( /\ tasks[t].pc = "tool" /\ tasks[t].call.op = "cancel"
            /\ tasks[t].call.pc = "read_tk"
            /\ tasks'[t] # tasks[t]
            /\ NotBookedByUser(t) )
          => /\ kbFile' = kbFile /\ tkFile' = tkFile
             /\ IF Open THEN Replies(t, "cancel_error") ELSE Silent
             /\ tasks'[t].generations = 0
             /\ tasks'[t].pc = "final"]_vars

\* a cancel turn for an id the user does not hold is over: it returned, its
\* error reply was sent
C7_Witness ==
    \E t \in DOMAIN tasks :
        /\ TurnOver(t) /\ tasks[t].intent.type = "cancel"
        /\ tasks[t].call.result.status = "error"
        /\ tasks[t].outcome = "returned" /\ tasks[t].generations = 0
        /\ \E i \in DOMAIN transport.sent :
              transport.sent[i] = [kind |-> "reply", text |-> "cancel_error", task |-> t]

\* C8: a cancel, book or my_tickets turn never asks the generation provider,
\* whether its tool succeeds or fails, and ends by returning.
C8_DeterministicTurnsBypassProvider ==
    \A t \in DOMAIN tasks :
        tasks[t].intent.type \in {"cancel", "book", "my_tickets"} =>
            /\ tasks[t].generations = 0
            /\ tasks[t].pc = "done" => tasks[t].outcome = "returned"

\* the store cannot be reached: no client was made at startup, or the store
\* has stopped answering
StoreUnavailable == ~(redis.client /\ redis.up)

\* C15: when the store is unavailable as the connection opens, the step that
\* handles the open leaves the transport open and greets the user, so that a
\* phone number can still be received.
C15_StoreUnavailableDoesNotBlock ==
    [][(transport.readyState = "connecting" /\ transport'.readyState # "connecting"
           /\ StoreUnavailable) =>
          /\ transport'.readyState = "open"
          /\ transport'.sent = <<[kind |-> "reply", text |-> "greeting", task |-> 0]>>]_vars

\* the fallback of _generate_llm_response (bot_logic.py 305-308): the tool
\* result when there is one, the request to rephrase otherwise
FallbackText(task) == IF task.tool_result # "" THEN task.tool_result ELSE "rephrase_apology"

\* C17: once the provider has failed in a turn whose transport is open, what
\* the turn has sent holds the fallback as one whole reply, and no fragment
\* carrying the provider's own failure text.
C17_ProviderFailureFallsBackToToolResult ==
    \A t \in DOMAIN tasks :
        (tasks[t].stream = "failed" /\ Open) =>
            /\ \E i \in DOMAIN transport.sent :
                   transport.sent[i] = [kind |-> "reply", text |-> FallbackText(tasks[t]), task |-> t]
            /\ \A i \in DOMAIN transport.sent :
                   transport.sent[i].task = t => transport.sent[i].kind = "reply"

\* the assistant turn a generation leaves in the history
AssistantTurn(task) == [role |-> "assistant", content |-> task.full_response]

\* C19: a step of a turn that is reading the stream while the transport is not
\* open sends nothing; it either takes the next fragment or ends the stream,
\* and ending the stream appends the accumulated text to the history as the
\* assistant turn and writes the context to the store when the store answers.
\* Such a turn, once over, has returned.
C19_ClosedTransportStopsFragmentsOnly ==
    [][/\ \A t \in DOMAIN tasks :
          (tasks[t].pc = "llm" /\ tasks'[t] # tasks[t] /\ ~Open) =>
              /\ transport'.sent = transport.sent
              /\ tasks'[t].pc \in {"llm", "llm_saved"}
              /\ tasks'[t].pc = "llm_saved" =>
                    /\ tasks'[t].full_response = tasks[t].full_response
                    /\ context_manager'.context.conversation_history =
                           LastOf(Append(context_manager.context.conversation_history,
                                         AssistantTurn(tasks[t])), HistoryBound)
                    /\ redis'.store =
                           IF redis.client /\ redis.up
                           THEN SetKey(redis.store, context_manager.phone, context_manager'.context)
                           ELSE redis.store
              /\ tasks'[t].pc = "llm" => Len(tasks'[t].full_response) = Len(tasks[t].full_response) + 1
       /\ \A u \in DOMAIN tasks' :
              (tasks'[u].pc = "done" /\ tasks'[u].stream = "ended") => tasks'[u].outcome = "returned"]_vars

\* the transport closed before the stream handed over its fragment: the turn
\* is over and has returned, the fragment was never sent, and it is in the
\* history and in the store as the assistant turn
C19_Witness ==
    \E t \in DOMAIN tasks :
        /\ tasks[t].pc = "done" /\ tasks[t].outcome = "returned"
        /\ tasks[t].stream = "ended" /\ tasks[t].full_response = <<"text">>
        /\ ~Open
        /\ \A i \in DOMAIN transport.sent :
               ~(transport.sent[i].task = t /\ transport.sent[i].kind = "chunk")
        /\ \E i \in DOMAIN context_manager.context.conversation_history :
               context_manager.context.conversation_history[i] = AssistantTurn(tasks[t])
        /\ \E i \in DOMAIN redis.store[context_manager.phone].conversation_history :
               redis.store[context_manager.phone].conversation_history[i] = AssistantTurn(tasks[t])

\* C23: no two booking records of the ledger, of the same user or of two
\* users, carry the same booking_id.
C23_BookingIdsUnique ==
    \A p, q \in DOMAIN tkFile :
        \A i \in DOMAIN tkFile[p], j \in DOMAIN tkFile[q] :
            (p # q \/ i # j) => tkFile[p][i].booking_id # tkFile[q][j].booking_id

\* C24: every booking record of the ledger has a quantity of at least 1,
\* whatever message the book intent was extracted from.
C24_StoredQuantityPositive ==
    \A p \in DOMAIN tkFile :
        \A i \in DOMAIN tkFile[p] : tkFile[p][i].quantity >= 1

\* the places of what turn t sent as fragments
ChunksOf(t) ==
    {i \in DOMAIN transport.sent :
        transport.sent[i].task = t /\ transport.sent[i].kind = "chunk"}

\* C25: once the stream of a turn has ended, with the transport open, the
\* turn has sent a completion marker after the last of its fragments.
C25_StreamEndsWithCompletionMarker ==
    \A t \in DOMAIN tasks :
        (tasks[t].stream = "ended" /\ Open /\ ChunksOf(t) # {}) =>
            \E m \in DOMAIN transport.sent :
                /\ transport.sent[m].task = t
                /\ transport.sent[m].kind = "complete"
                /\ \A i \in ChunksOf(t) : i < m

\* the engine as main.py builds it: the catalog indexed, no cache attached
SessionEngine ==
    [events |-> Catalog(0, 0), attached |-> FALSE, up |-> FALSE, store |-> EmptyStore, clock |-> 0]

\* the ids of a result list
IdsOf(results) == [i \in DOMAIN results |-> results[i].id]

\* the ids of the events the engine finds for the intent of a turn
FoundIds(task) ==
    CASE task.intent.type = "search" -> IdsOf(search(SessionEngine, task.message, 5).call.results)
      [] task.intent.type = "similar" ->
            IdsOf(find_similar_events(SessionEngine, task.intent.event_id, 3).call.results)
      [] task.intent.type = "details" ->
            IF get_event_by_id(task.intent.event_id) # NoEvent
            THEN <<task.intent.event_id>> ELSE <<>>
      [] OTHER -> <<>>

\* the step of turn t in which the branch of a search, similar or details
\* intent asks the engine
EngineStep(t) ==
    /\ tasks[t].pc \in {"saved", "search", "similar"}
    /\ tasks'[t].pc \in {"llm", "done"}
    /\ tasks'[t].intent.type \in {"search", "similar", "details"}

\* C26: the step of a search, similar or details turn that asks the engine
\* goes on to generation; when the engine finds events it leaves their ids,
\* in result order and cut to 5, in last_mentioned_events, and when it finds
\* none it leaves last_mentioned_events as it was.
C26_MentionedEventsFollowResults ==
    [][\A t \in DOMAIN tasks :
          EngineStep(t) =>
              /\ tasks'[t].pc = "llm"
              /\ context_manager'.context.last_mentioned_events =
                     IF FoundIds(tasks'[t]) # <<>>
                     THEN SubSeq(FoundIds(tasks'[t]), 1,
                                 Min({Len(FoundIds(tasks'[t])), MentionedBound}))
                     ELSE context_manager.context.last_mentioned_events]_vars

\* ---------------------------------------------------------------------------
\* C28: a book_ticket call for an event id that is not in the catalog, or for
\* more tickets than the event has available, returns an error result, and the
\* catalog file and the ledger file after the call are the ones before it.
Refused(call) ==
    LET idx == FirstIndex(call.pre.kb, LAMBDA e : e.id = call.c.event_id) IN
    \/ idx = 0
    \/ call.c.quantity > call.pre.kb[idx].tickets_available

C28_RefusedBookingChangesNothing ==
    \A i \in DOMAIN calls :
        (calls[i].c.op = "book" /\ ~Running(i) /\ Refused(calls[i]))
            => /\ calls[i].c.result.status = "error"
               /\ calls[i].post = calls[i].pre

\* both refusals have happened with a booking in the ledger: one for an id that
\* is not in the catalog, one for more tickets than are left of a listed event
C28_Witness ==
    /\ \E i \in DOMAIN calls :
          /\ calls[i].c.op = "book" /\ ~Running(i)
          /\ calls[i].c.result.message = "event_not_found"
          /\ calls[i].pre.tk # EmptyTickets
          /\ calls[i].post = calls[i].pre
    /\ \E i \in DOMAIN calls :
          /\ calls[i].c.op = "book" /\ ~Running(i)
          /\ calls[i].c.result.message = "only_n_left"
          /\ TicketsOf(calls[i].pre.kb, calls[i].c.event_id) > 0
          /\ calls[i].post = calls[i].pre

\* ---------------------------------------------------------------------------
\* C29: in the stream of the local backend a line that is not JSON does not
\* abort the stream and raises nothing, and the fragments of the well-formed
\* lines that follow it, in the same chunk or in later ones, are still yielded
\* in order: a received chunk adds the fragments of all its well-formed lines.
RECURSIVE FragmentsOf(_)
FragmentsOf(lines) ==
    IF lines = <<>> THEN <<>>
    ELSE Fragments(Head(lines)) \o FragmentsOf(Tail(lines))

C29_BadLineSkippedAlone ==
    [][ \A chunk \in Chunks :
          ( /\ tasks[1].pc = "stream"
            /\ tasks[1].provider # "gemini"
            /\ tasks' = <<iter_chunk(tasks[1], chunk)>> )
          => /\ tasks'[1].pc = "stream"
             /\ tasks'[1].outcome = "running"
             /\ tasks'[1].yielded = tasks[1].yielded \o FragmentsOf(chunk) ]_vars

\* ---------------------------------------------------------------------------
\* C30: after every call of a sequence of non-overlapping book_ticket and
\* cancel_ticket calls, for every event of the catalog, tickets_available is
\* not negative, and tickets_available plus the quantities of the bookings for
\* the event that are in the ledger is the tickets_available the event started
\* with.
RECURSIVE BookedIn(_, _)
\* the quantities of the bookings for the event in one user's list
BookedIn(list, event_id) ==
    IF list = <<>> THEN 0
    ELSE (IF Head(list).event_id = event_id THEN Head(list).quantity ELSE 0)
         + BookedIn(Tail(list), event_id)

RECURSIVE BookedOver(_, _, _)
BookedOver(tk, phones, event_id) ==
    IF phones = {} THEN 0
    ELSE LET p == CHOOSE q \in phones : TRUE
         IN BookedIn(tk[p], event_id) + BookedOver(tk, phones \ {p}, event_id)

\* the quantities of all bookings for the event in the ledger
Booked(tk, event_id) == BookedOver(tk, DOMAIN tk, event_id)

\* the catalog before the first call
InitialKb == IF calls = <<>> THEN kbFile ELSE calls[1].pre.kb

C30_TicketsConserved ==
    NoneRunning =>
        \A i \in DOMAIN InitialKb :
            \E id \in {InitialKb[i].id} :
                /\ \E e \in Range(kbFile) : e.id = id
                /\ TicketsOf(kbFile, id) >= 0
                /\ TicketsOf(kbFile, id) + Booked(tkFile, id) = InitialKb[i].tickets_available

\* a booking has been cancelled and tickets of an event are still booked
C30_Witness ==
    /\ NoneRunning
    /\ \E i \in DOMAIN calls : calls[i].c.op = "cancel" /\ Succeeded(calls[i])
    /\ \E i \in DOMAIN calls : calls[i].c.op = "book" /\ Succeeded(calls[i])
                                /\ calls[i].c.quantity = MaxTickets
    /\ \E id \in BookableIds : Booked(tkFile, id) > 0 /\ TicketsOf(kbFile, id) < MaxTickets

\* ---------------------------------------------------------------------------
\* C31: when the calls are book_ticket calls for one event, however their steps
\* interleave, the quantities of the bookings for the event in the ledger never
\* exceed the tickets_available the event started with, and once all calls have
\* returned tickets_available is that number less the quantities of the calls
\* that returned success.
RECURSIVE SoldBy(_)
\* the quantities of the calls of a list that returned success
SoldBy(cs) ==
    IF cs = <<>> THEN 0
    ELSE (IF Succeeded(Head(cs)) THEN Head(cs).c.quantity ELSE 0) + SoldBy(Tail(cs))

BookingsOfOneEvent ==
    /\ calls # <<>>
    /\ \A k \in DOMAIN calls : /\ calls[k].c.op = "book"
                               /\ calls[k].c.event_id = calls[1].c.event_id

C31_NeverOversold ==
    BookingsOfOneEvent =>
        \E id \in {calls[1].c.event_id} :
            /\ Booked(tkFile, id) <= TicketsOf(InitialKb, id)
            /\ NoneRunning =>
                  TicketsOf(kbFile, id) = TicketsOf(InitialKb, id) - SoldBy(calls)

\* ---------------------------------------------------------------------------
\* C32: the cleanup of a connection that disconnects does not impair the
\* generation for a connection that is still open: a turn that starts after
\* another connection was cleaned up does not end with the provider's error
\* sentence for a request the provider could not make.
AfterCleanup ==
    /\ tasks[1].generation.pc = "done"
    /\ tasks[1].turns > 0
    /\ tasks[1].cleaned # {}
    /\ tasks[1].turn_of \notin tasks[1].cleaned

C32_CleanupLeavesOthersWorking ==
    AfterCleanup =>
        ~ /\ tasks[1].generation.failure = "RuntimeError"
          /\ tasks[1].generation.yielded = <<"error_generic">>

\* ---------------------------------------------------------------------------
\* C33: book_ticket, cancel_ticket and get_my_tickets are called only while
\* the session is CONVERSING, by an invocation that began in CONVERSING, and
\* with the phone number of the session, a string of ten digits; the step that
\* rejects a message in AWAITING_PHONE ends the invocation and leaves the
\* ledger, the catalog, the context and its store as they were, without a call
\* of a tool and without a generation.
TenDigits(text) == Len(text) = PhoneLen /\ \A i \in DOMAIN text : IsDigitChar(text[i])

Rejected(t) ==
    /\ t \in DOMAIN tasks
    /\ tasks[t].pc = "start"
    /\ state = STATE_AWAITING_PHONE
    /\ ~TenDigits(_clean_message(tasks[t].message))

C33_ToolsOnlyWhenConversing ==
    [][ /\ \A t \in DOMAIN tasks' :
             tasks'[t].call.op # "none" =>
                 /\ state' = STATE_CONVERSING
                 /\ tasks'[t].began = STATE_CONVERSING
                 /\ tasks'[t].call.phone = phone_number'
                 /\ TenDigits(phone_number')
        /\ \A u \in DOMAIN tasks :
             (Rejected(u) /\ tasks'[u] # tasks[u]) =>
                 /\ tasks'[u].pc = "done" /\ tasks'[u].outcome = "returned"
                 /\ tasks'[u].call = NoCall /\ tasks'[u].generations = 0
                 /\ state' = STATE_AWAITING_PHONE
                 /\ <<kbFile', tkFile', context_manager', redis'>>
                        = <<kbFile, tkFile, context_manager, redis>> ]_vars

\* a message was rejected, the phone number was then accepted, and a booking
\* tool was called with it
C33_Witness ==
    \E t, u \in DOMAIN tasks :
        /\ tasks[t].began = STATE_AWAITING_PHONE
        /\ ~TenDigits(tasks[t].message)
        /\ tasks[t].pc = "done" /\ tasks[t].sends = 1
        /\ tasks[u].call.op = "book"
        /\ tasks[u].call.pc = "done"
        /\ tasks[u].call.phone = P1

\* ---------------------------------------------------------------------------
\* C34: in the messages assembled for a turn that asks the provider to
\* generate, the last message is the current user message, and it is the only
\* user message with that content (for a message the client sends for the
\* first time on the connection).
FirstTime(t) ==
    \A u \in 1..(t - 1) : _clean_message(tasks[u].message) # _clean_message(tasks[t].message)

Asks(t) == tasks'[t].generations > tasks[t].generations

C34_UserMessageOnceInPrompt ==
    [][ \A t \in DOMAIN tasks :
          (Asks(t) /\ FirstTime(t)) =>
             \E messages \in {build_messages(context_manager'.context, tasks'[t].message,
                                             tasks'[t].tool_result)} :
                /\ messages[Len(messages)] = [role |-> "user", content |-> tasks'[t].message]
                /\ Cardinality({ i \in DOMAIN messages :
                                    /\ messages[i].role = "user"
                                    /\ messages[i].content = tasks'[t].message }) = 1 ]_vars

====
